---- MODULE Spec2Model ----
(***************************************************************************)
(* Model of the conductor VM orchestration tool (src/conductor).           *)
(*                                                                         *)
(* Text is modelled as sequences of one-character strings, so that the     *)
(* prefix, substring and membership tests of the code are computed, not    *)
(* assumed.  The hypervisor (virsh), the guests and the file system are    *)
(* the environment: their answers are drawn nondeterministically.          *)
(* Time is counted in whole seconds.                                       *)
(***************************************************************************)
EXTENDS Integers, Sequences, FiniteSets, TLC

VARIABLES
    hv,             \* hypervisor inventory: domain name -> power state
    leases,         \* domain name -> TRUE when the domain has an address lease
    marker,         \* domain name -> TRUE when boot-finished exists in the guest
    cmd,            \* the command of this invocation
    pc,             \* position of the command
    outcome,        \* how the command ended: "none", "ok", "exit1", "exception"
    \* ---- wait_for_ssh ----
    vm_name,        \* argument
    timeout,        \* argument
    interval,       \* argument
    ip,             \* get_vm_ip(vm_name)
    now,            \* time.time() - start_time
    port_open,      \* result of the port check of this iteration
    last_probe,     \* what became of the last SSH probe (see ProbeOutcomes)
    port_checks,    \* number of port checks issued (wait_for_ssh)
    report,         \* what the poller printed last: "none", "success", "timeout", "noip"
    \* ---- run_snail_on_vms ----
    running_vms,    \* get_running_vms()
    vm_ips,         \* the VMs that had an address, in iteration order
    idx,            \* position in vm_ips (readiness sweep) or ssh_ready (workload)
    attempt,        \* loop variable of the readiness loop
    ssh_connected,  \* flag of the VM under test
    ssh_ready,      \* the ready set, in insertion order
    not_ready,      \* the VMs reported "SSH not ready"
    results,        \* workload outcome per VM
    \* ---- show_status ----
    as_json,        \* argument
    check_cloudinit,\* argument
    vms,            \* get_vm_list()
    rows,           \* the rows of the table, or the entries of the JSON document
    \* ---- callers of the state reader ----
    queried,        \* per reader function: "no", or how its queries ended
    answer,         \* per reader function: what it returned
    \* ---- create_vms, create_all_vms ----
    files,          \* the image files that exist in image_dir
    vm_specs,       \* the specs of the batch
    spec_idx,       \* position of the image check in vm_specs
    missing_images, \* the (distro, version) pairs reported missing
    unknown,        \* the distributions reported unknown
    access,         \* how far image_dir can be read: see AccessModes
    script_runs,    \* how often create-vms.sh was invoked
    \* ---- start_vms, shutdown_vms, destroy_vms ----
    force,          \* argument
    confirmed,      \* answer to click.confirm: "unasked", "yes", "no"
    targets,        \* the VMs the command loops over
    t_idx,          \* number of VMs of targets already handled
    issued,         \* the mutating commands run so far, with their exit status
    said,           \* per VM: the last per-VM line printed about it
    media,          \* per VM: its first-boot medium (see MediaStates)
    disks,          \* the VMs whose <image_dir>/<vm-name>.qcow2 exists
    cloudinit_exists, \* cloudinit_dir exists
    vm_list_file,   \* vm-list.txt exists
    calls,          \* number of invocations of the command so far
    prior,          \* the previous invocation: its report, its commands and the
                    \* VMs defined when it ended
    \* ---- images.py and its callers ----
    probe_table,    \* what each probe of check_image_exists answers (ProbeAnswers)
    probe_k,        \* the probe check_image_exists runs next
    probes_run,     \* the probes run so far, in order
    verdict,        \* "none", "true", "false", or "raised" for an exception
    pair,           \* the (distro, version) under consideration
    decision,       \* per place of decision: what it resolved the version to
    detected,       \* "none" or the result of scan_available_images
    \* ---- the version sorts of the catalog ----
    catalog_distro, \* the distribution whose versions are sorted
    available_versions, \* the versions of the distribution, in the order of the file
    sorted_versions, \* versions_list of get_available_distro_versions after its sort
    table_rows,     \* the versions of the rows of list-versions, top row first
    \* ---- external processes ----
    program,        \* the external calls of the command, in order (see Programs)
    site,           \* position in program of the call under way
    child,          \* the child process: "none", "running" or "stuck"
    elapsed         \* seconds since the child was started

varsEnv   == <<hv, leases, marker>>
varsCmd   == <<cmd, pc, outcome>>
varsWait  == <<vm_name, timeout, interval, ip, now, port_open, port_checks, report>>
varsProbe == <<last_probe>>
varsSnail == <<running_vms, vm_ips, idx, attempt, ssh_connected, ssh_ready,
               not_ready, results>>
varsStatus == <<as_json, check_cloudinit, vms, rows>>
varsReader == <<queried, answer>>
varsCreate == <<files, access, vm_specs, spec_idx, missing_images, unknown, script_runs>>
varsLife == <<force, confirmed, targets, t_idx, issued, said, media, disks,
              cloudinit_exists, vm_list_file, calls, prior>>
varsImage == <<probe_table, probe_k, probes_run, verdict, pair, decision, detected>>
varsSort == <<catalog_distro, available_versions, sorted_versions, table_rows>>
varsCall == <<program, site, child, elapsed>>
vars == <<varsEnv, varsCmd, varsWait, varsProbe, varsSnail, varsStatus, varsReader,
          varsCreate, varsLife, varsImage, varsSort, varsCall>>

\* what the readiness pollers leave alone
frameReady == <<varsStatus, varsReader, varsCreate, varsLife, varsImage,
    varsSort, varsCall>>
\* what show_status leaves alone
frameStatus == <<varsWait, varsSnail, varsReader, varsCreate, varsLife, varsImage,
    varsSort, varsCall>>
\* what the reader functions leave alone
frameReader == <<varsWait, varsProbe, varsSnail, varsStatus, varsCreate, varsLife, varsImage,
    varsSort, varsCall>>
\* what create_vms and create_all_vms leave alone
frameCreate == <<vm_name, timeout, interval, ip, now, port_open, port_checks,
                 varsProbe, varsSnail, varsStatus, varsReader, varsLife, varsImage,
    varsSort, varsCall>>
\* what start_vms, shutdown_vms and destroy_vms leave alone
frameLife == <<timeout, interval, ip, now, port_open, port_checks,
               varsProbe, varsSnail, varsStatus, varsReader, varsCreate, varsImage,
    varsSort, varsCall>>
\* what the functions of images.py and the image decisions leave alone
frameImage == <<varsEnv, varsWait, varsProbe, varsSnail, varsStatus, varsReader,
                vm_specs, spec_idx, missing_images, unknown, script_runs, varsLife,
    varsSort, varsCall>>
frameFiles == <<frameCreate, files, access>>

----------------------------------------------------------------------------
(* Bounds of the model *)

\* largest number of domains defined in the hypervisor
MaxVMs == 2
\* largest timeout argument given to wait_for_ssh
MaxTimeout == 6
\* largest interval argument given to wait_for_ssh
MaxInterval == 3

----------------------------------------------------------------------------
(* Text helpers *)

startswith(s, p) == Len(s) >= Len(p) /\ SubSeq(s, 1, Len(p)) = p

\* Python's  needle in hay  for strings
Contains(needle, hay) ==
    \E i \in 1..(Len(hay) - Len(needle) + 1) :
        SubSeq(hay, i, i + Len(needle) - 1) = needle

\* Python's  c in s  for one character
HasChar(c, s) == \E i \in 1..Len(s) : s[i] = c

Range(s) == {s[i] : i \in 1..Len(s)}

\* the characters of the model's texts, in code point order
Alphabet ==
    <<"-", ".", "/", "0", "1", "2", "3", "4", "5", "6", "7", "8", "9", ":", "_",
      "a", "b", "c", "d", "e", "f", "g", "h", "i", "j", "k", "l", "m", "n", "o",
      "p", "q", "r", "s", "t", "u", "v", "w", "x", "y", "z">>

\* rank of a character in code point order
Ord(c) == CHOOSE i \in 1..Len(Alphabet) : Alphabet[i] = c

\* Python's  a < b  for strings
RECURSIVE StrLess(_, _)
StrLess(a, b) ==
    IF b = <<>> THEN FALSE
    ELSE IF a = <<>> THEN TRUE
    ELSE IF a[1] # b[1] THEN Ord(a[1]) < Ord(b[1])
    ELSE StrLess(Tail(a), Tail(b))

\* Python's  sorted(S)  for a collection of distinct strings
RECURSIVE sorted(_)
sorted(S) ==
    IF S = {} THEN <<>>
    ELSE LET m == CHOOSE x \in S : \A y \in S \ {x} : StrLess(x, y)
         IN  <<m>> \o sorted(S \ {m})

----------------------------------------------------------------------------
(* Configuration and the domains of the model *)

\* config vms.name_prefix ("conductor-test" by default), here "c-t"
prefix == <<"c", "-", "t">>

\* "c-t-f-42-1"
VmOne == prefix \o <<"-", "f", "-", "4", "2", "-", "1">>
\* "c-t-f-42-10"
VmTen == prefix \o <<"-", "f", "-", "4", "2", "-", "1", "0">>
\* "c-tx": carries the prefix, nothing of the naming convention after it
VmBare == prefix \o <<"x">>
\* "web": a domain of another owner
VmOther == <<"w", "e", "b">>

Names == {VmOne, VmTen, VmBare, VmOther}

PowerStates == {"absent", "running", "shut off"}

Defined(h) == {n \in Names : h[n] # "absent"}

Inventories == {h \in [Names -> PowerStates] : Cardinality(Defined(h)) <= MaxVMs}

----------------------------------------------------------------------------
(* The hypervisor command surface (virsh), as the text the code parses *)

\* stdout.strip().split("\n") of a name listing: one line per domain, a single
\* empty line when there is none
Lines(S) == IF S = {} THEN <<<<>>>> ELSE sorted(S)

\* virsh list --all --name
virsh_list_all(h) == Lines(Defined(h))

\* virsh list --name
virsh_list(h) == Lines({n \in Names : h[n] = "running"})

\* virsh domstate NAME: exit status and state text
virsh_domstate(h, n) ==
    IF n \in Names /\ h[n] # "absent"
    THEN [returncode |-> 0, stdout |-> h[n]]
    ELSE [returncode |-> 1, stdout |-> ""]

\* the addresses virsh domifaddr NAME reports (the tool only tells them apart
\* from no address); the address of a domain is its name tagged "ip"
virsh_domifaddr(h, l, n) ==
    IF n \in Names /\ h[n] = "running"
    THEN [returncode |-> 0, stdout |-> IF l[n] THEN <<<<"ip", n>>>> ELSE <<>>]
    ELSE [returncode |-> 1, stdout |-> <<>>]

\* what a failed query returns
QueryFailed == [returncode |-> 1, stdout |-> <<>>]

\* Python's None where a string is expected (falsy, like "")
None == <<>>

----------------------------------------------------------------------------
(* vms.py: the hypervisor state reader.  ok = FALSE is a non-zero exit of
   the query for a transient reason. *)

IsDigit(c) == c \in {"0", "1", "2", "3", "4", "5", "6", "7", "8", "9"}

DigitVal(c) == Ord(c) - Ord("0")

IsDigits(s) == s # <<>> /\ \A i \in 1..Len(s) : IsDigit(s[i])

RECURSIVE ParseInt(_)
ParseInt(s) == IF s = <<>> THEN 0 ELSE 10 * ParseInt(SubSeq(s, 1, Len(s) - 1)) + DigitVal(s[Len(s)])

\* index of the first occurrence of the character c in s (c occurs in s)
Find(c, s) == CHOOSE k \in 1..Len(s) : s[k] = c /\ \A j \in 1..(k - 1) : s[j] # c

\* Python's  s.split(c)
RECURSIVE split(_, _)
split(s, c) ==
    IF ~HasChar(c, s) THEN <<s>>
    ELSE <<SubSeq(s, 1, Find(c, s) - 1)>> \o split(SubSeq(s, Find(c, s) + 1, Len(s)), c)

\* get_vm_list.sort_key; the versions of the model's names are whole numbers,
\* float() of anything else is the ValueError branch
sort_key(name) ==
    LET parts == split(name, "-") IN
    IF Len(parts) >= 4 /\ IsDigits(parts[Len(parts)])
    THEN <<parts[Len(parts) - 2],
           IF IsDigits(parts[Len(parts) - 1]) THEN ParseInt(parts[Len(parts) - 1]) ELSE 0,
           ParseInt(parts[Len(parts)])>>
    ELSE <<<<>>, 0, 0>>

\* Python's tuple comparison  a < b  of two sort keys
KeyLess(a, b) ==
    \/ StrLess(a[1], b[1])
    \/ a[1] = b[1] /\ a[2] < b[2]
    \/ a[1] = b[1] /\ a[2] = b[2] /\ a[3] < b[3]

\* sorted(vms, key=sort_key, reverse=True): stable, largest key first
RECURSIVE sorted_by_key_reverse(_)
sorted_by_key_reverse(s) ==
    IF s = <<>> THEN <<>>
    ELSE LET i == CHOOSE k \in 1..Len(s) :
                    /\ \A j \in 1..Len(s) : ~KeyLess(sort_key(s[k]), sort_key(s[j]))
                    /\ \A j \in 1..(k - 1) : KeyLess(sort_key(s[j]), sort_key(s[k]))
         IN  <<s[i]>> \o sorted_by_key_reverse(SubSeq(s, 1, i - 1) \o SubSeq(s, i + 1, Len(s)))

\* line.startswith(prefix) and "-" in line[len(prefix):]
ListFilter(line) == startswith(line, prefix) /\ HasChar("-", SubSeq(line, Len(prefix) + 1, Len(line)))

\* line and line.startswith(prefix)
RunningFilter(line) == line # <<>> /\ startswith(line, prefix)

get_vm_list(h, ok) ==
    IF ~ok THEN <<>>
    ELSE sorted_by_key_reverse(SelectSeq(virsh_list_all(h), ListFilter))

get_running_vms(h, ok) ==
    IF ~ok THEN <<>>
    ELSE sorted(Range(SelectSeq(virsh_list(h), RunningFilter)))

\* okAll: the list --all query; okRun: the list query of the nested
\* get_running_vms() call
get_stopped_vms(h, okAll, okRun) ==
    IF ~okAll THEN <<>>
    ELSE LET running == Range(get_running_vms(h, okRun))
             Stopped(line) == RunningFilter(line) /\ line \notin running
         IN  sorted(Range(SelectSeq(virsh_list_all(h), Stopped)))

get_vm_ip(h, l, n, ok) ==
    LET result == IF ok THEN virsh_domifaddr(h, l, n) ELSE QueryFailed IN
    IF result.returncode # 0 THEN None
    ELSE IF result.stdout # <<>> THEN result.stdout[1]
    ELSE None

get_vm_state(h, n, ok) ==
    LET result == IF ok THEN virsh_domstate(h, n) ELSE QueryFailed IN
    IF result.returncode = 0 THEN result.stdout ELSE "unknown"

----------------------------------------------------------------------------
(* The guests, as seen through ssh *)

\* what can become of one ssh call: the remote command ran and exited 0, the
\* connection was refused, the key was not accepted, or the call was still
\* running when the timeout given to subprocess.run expired
ProbeOutcomes == {"ok", "refused", "authfail", "hang"}

\* the CompletedProcess of an ssh call that returned; remote is the output of
\* the remote command, 255 is ssh's own exit status for a failed connection
ssh(o, remote) ==
    IF o = "ok" THEN [returncode |-> 0, stdout |-> remote]
    ELSE [returncode |-> 255, stdout |-> <<>>]

\* echo 'SSH_OK'
SSH_OK == <<"S", "S", "H", "_", "O", "K">>

\* echo 'SSH ready'
SSH_ready == <<"S", "S", "H", " ", "r", "e", "a", "d", "y">>

Environments ==
    {e \in [hv : Inventories, leases : [Names -> BOOLEAN], marker : [Names -> BOOLEAN]] :
        \A n \in Names : /\ e.leases[n] => e.hv[n] = "running"
                         /\ e.marker[n] => e.leases[n]}

IdleWait ==
    /\ vm_name = None /\ timeout = 0 /\ interval = 0 /\ ip = None /\ now = 0
    /\ port_open = FALSE /\ port_checks = 0 /\ report = "none"

IdleSnail ==
    /\ running_vms = <<>> /\ vm_ips = <<>> /\ idx = 0 /\ attempt = 0
    /\ ssh_connected = FALSE /\ ssh_ready = <<>> /\ not_ready = <<>>
    /\ results = [n \in Names |-> "none"]

IdleStatus == as_json = FALSE /\ check_cloudinit = FALSE /\ vms = <<>> /\ rows = <<>>

ReaderFunctions ==
    {"get_vm_list", "get_running_vms", "get_stopped_vms", "get_vm_ip", "get_vm_state"}

IdleReader ==
    /\ queried = [f \in ReaderFunctions |-> "no"]
    /\ answer = [f \in ReaderFunctions |-> <<>>]

IdleCreate ==
    /\ files = {} /\ access = "open" /\ vm_specs = <<>> /\ spec_idx = 0
    /\ missing_images = <<>> /\ unknown = <<>> /\ script_runs = 0

\* no invocation before this one
NoCall == [report |-> "none", issued |-> <<>>, left |-> {}]

\* a VM without first-boot medium: nothing attached, no files
NoMedium == [attached |-> FALSE, iso |-> FALSE, user_data |-> FALSE, meta_data |-> FALSE]

IdleImage ==
    /\ probe_table = <<>> /\ probe_k = 0 /\ probes_run = <<>> /\ verdict = "none"
    /\ pair = <<>> /\ decision = <<>> /\ detected = "none"

IdleSort ==
    /\ catalog_distro = <<>> /\ available_versions = <<>> /\ sorted_versions = <<>>
    /\ table_rows = <<>>

IdleCall == program = <<>> /\ site = 0 /\ child = "none" /\ elapsed = 0

IdleLife ==
    /\ force = FALSE /\ confirmed = "unasked" /\ targets = <<>> /\ t_idx = 0
    /\ issued = <<>> /\ said = [n \in Names |-> "none"]
    /\ media = [n \in Names |-> NoMedium] /\ disks = {}
    /\ cloudinit_exists = FALSE /\ vm_list_file = FALSE /\ calls = 0 /\ prior = NoCall

----------------------------------------------------------------------------
(* commands.py: wait_for_ssh *)

\* ConnectTimeout-independent limit of the ssh call, timeout=3
WaitProbeTimeout == 3
\* sock.settimeout(1)
PortTimeout == 1

\* if result.returncode == 0 and "SSH_OK" in result.stdout
WaitSucceeded(result) == result.returncode = 0 /\ Contains(SSH_OK, result.stdout)

WaitGetIp ==
    /\ cmd = "wait_for_ssh" /\ pc = "start"
    /\ \E ok \in BOOLEAN :
        LET got == get_vm_ip(hv, leases, vm_name, ok) IN
        /\ ip' = got
        /\ IF got = None
           THEN /\ report' = "noip" /\ pc' = "done" /\ outcome' = "ok"
           ELSE /\ report' = report /\ pc' = "while" /\ outcome' = outcome
    /\ now' = 0
    /\ UNCHANGED <<frameReady, varsEnv, cmd, vm_name, timeout, interval, port_open, port_checks,
                   varsProbe, varsSnail>>

\* while time.time() - start_time < timeout, and the report after the loop
WaitWhile ==
    /\ cmd = "wait_for_ssh" /\ pc = "while"
    /\ IF now < timeout
       THEN /\ pc' = "port" /\ UNCHANGED <<report, outcome>>
       ELSE /\ pc' = "done" /\ report' = "timeout" /\ outcome' = "ok"
    /\ UNCHANGED <<frameReady, varsEnv, cmd, vm_name, timeout, interval, ip, now, port_open,
                   port_checks, varsProbe, varsSnail>>

\* the port check; a closed port sleeps and continues
WaitPortCheck ==
    /\ cmd = "wait_for_ssh" /\ pc = "port"
    /\ \E open \in BOOLEAN, d \in 0..PortTimeout :
        /\ port_open' = open
        /\ IF open
           THEN /\ pc' = "ssh" /\ now' = now + d
           ELSE /\ pc' = "while" /\ now' = now + d + interval
    /\ port_checks' = port_checks + 1
    /\ UNCHANGED <<frameReady, varsEnv, cmd, outcome, vm_name, timeout, interval, ip, report,
                   varsProbe, varsSnail>>

\* the ssh probe; a call that outlives its timeout raises TimeoutExpired,
\* which nothing catches
WaitSshProbe ==
    /\ cmd = "wait_for_ssh" /\ pc = "ssh"
    /\ \E o \in ProbeOutcomes, d \in 0..(WaitProbeTimeout - 1) :
        /\ last_probe' = o
        /\ IF o = "hang"
           THEN /\ now' = now + WaitProbeTimeout
                /\ pc' = "done" /\ outcome' = "exception" /\ report' = report
           ELSE IF WaitSucceeded(ssh(o, SSH_OK))
           THEN /\ now' = now + d
                /\ pc' = "done" /\ outcome' = "ok" /\ report' = "success"
           ELSE /\ now' = now + d + interval
                /\ pc' = "while" /\ outcome' = outcome /\ report' = report
    /\ UNCHANGED <<frameReady, varsEnv, cmd, vm_name, timeout, interval, ip, port_open,
                   port_checks, varsSnail>>

wait_for_ssh == WaitGetIp \/ WaitWhile \/ WaitPortCheck \/ WaitSshProbe

----------------------------------------------------------------------------
(* commands.py: run_snail_on_vms *)

\* 5 minutes max wait
max_wait_time == 300
\* Check every 10 seconds
check_interval == 10
max_attempts == max_wait_time \div check_interval
\* timeout=10 of the readiness probe
SnailProbeTimeout == 10
\* -o ConnectTimeout=5 of the readiness probe
SnailConnectTimeout == 5

\* the test reversed into "ssh did not report a connection failure of its own"
SnailSucceeded_AnyExit(test_result) == test_result.returncode # 1

\* if test_result.returncode == 0
SnailSucceeded(test_result) == test_result.returncode = 0

\* the ssh key check and get_running_vms()
SnailStart ==
    /\ cmd = "run_snail_on_vms" /\ pc = "start"
    /\ \E key \in BOOLEAN, ok \in BOOLEAN :
        IF ~key
        THEN /\ pc' = "done" /\ outcome' = "exit1" /\ running_vms' = running_vms
        ELSE LET got == get_running_vms(hv, ok) IN
             /\ running_vms' = got
             /\ IF got = <<>>
                THEN pc' = "done" /\ outcome' = "ok"
                ELSE pc' = "ips" /\ outcome' = outcome
    /\ UNCHANGED <<frameReady, varsEnv, cmd, varsWait, varsProbe, vm_ips, idx, attempt,
                   ssh_connected, ssh_ready, not_ready, results>>

\* the loop that fills vm_ips; oks are the domains whose address query exits 0
SnailGetIps ==
    /\ cmd = "run_snail_on_vms" /\ pc = "ips"
    /\ \E oks \in SUBSET Range(running_vms) :
        LET HasIp(n) == get_vm_ip(hv, leases, n, n \in oks) # None
            got == SelectSeq(running_vms, HasIp)
        IN  /\ vm_ips' = got
            /\ IF got = <<>>
               THEN pc' = "done" /\ outcome' = "ok" /\ idx' = idx
               ELSE pc' = "probe" /\ outcome' = outcome /\ idx' = 1
    /\ attempt' = 0 /\ now' = 0 /\ ssh_connected' = FALSE
    /\ UNCHANGED <<frameReady, varsEnv, cmd, vm_name, timeout, interval, ip, port_open,
                   port_checks, report, varsProbe, running_vms, ssh_ready,
                   not_ready, results>>

\* one pass of  for attempt in range(max_attempts)  for vm_ips[idx]: the probe,
\* then break, sleep or the end of the range
SnailProbe ==
    /\ cmd = "run_snail_on_vms" /\ pc = "probe"
    /\ LET vm == vm_ips[idx] IN
       \E o \in ProbeOutcomes, d \in {0, SnailConnectTimeout} :
        /\ last_probe' = o
        /\ IF o = "hang"
           THEN /\ now' = now + SnailProbeTimeout
                /\ pc' = "done" /\ outcome' = "exception"
                /\ UNCHANGED <<ssh_ready, ssh_connected, attempt>>
           ELSE IF SnailSucceeded(ssh(o, SSH_ready))
           THEN /\ now' = now + d
                /\ ssh_ready' = Append(ssh_ready, vm) /\ ssh_connected' = TRUE
                /\ pc' = "after_loop"
                /\ UNCHANGED <<outcome, attempt>>
           ELSE IF attempt < max_attempts - 1
           THEN /\ now' = now + d + check_interval
                /\ attempt' = attempt + 1
                /\ pc' = "probe"
                /\ UNCHANGED <<outcome, ssh_ready, ssh_connected>>
           ELSE /\ now' = now + d
                /\ pc' = "after_loop"
                /\ UNCHANGED <<outcome, ssh_ready, ssh_connected, attempt>>
    /\ UNCHANGED <<frameReady, varsEnv, cmd, vm_name, timeout, interval, ip, port_open,
                   port_checks, report, running_vms, vm_ips, idx, not_ready, results>>

\* if not ssh_connected: the report; then the next VM, or the end of the sweep
SnailAfterLoop ==
    /\ cmd = "run_snail_on_vms" /\ pc = "after_loop"
    /\ not_ready' = IF ~ssh_connected THEN Append(not_ready, vm_ips[idx]) ELSE not_ready
    /\ IF idx < Len(vm_ips)
       THEN /\ idx' = idx + 1 /\ pc' = "probe" /\ outcome' = outcome
       ELSE IF ssh_ready = <<>>
       THEN /\ idx' = idx /\ pc' = "done" /\ outcome' = "ok"
       ELSE /\ idx' = 1 /\ pc' = "run" /\ outcome' = outcome
    /\ attempt' = 0 /\ now' = 0 /\ ssh_connected' = FALSE
    /\ UNCHANGED <<frameReady, varsEnv, cmd, vm_name, timeout, interval, ip, port_open,
                   port_checks, report, varsProbe, running_vms, vm_ips, ssh_ready,
                   results>>

\* the workload on ssh_ready[idx]; every outcome of the call is caught
SnailRun ==
    /\ cmd = "run_snail_on_vms" /\ pc = "run"
    /\ \E r \in {"success", "failed", "timeout", "error"} :
        results' = [results EXCEPT ![ssh_ready[idx]] = r]
    /\ IF idx < Len(ssh_ready)
       THEN /\ idx' = idx + 1 /\ pc' = "run" /\ outcome' = outcome
       ELSE /\ idx' = idx /\ pc' = "done" /\ outcome' = "ok"
    /\ UNCHANGED <<frameReady, varsEnv, cmd, varsWait, varsProbe, running_vms, vm_ips, attempt,
                   ssh_connected, ssh_ready, not_ready>>

run_snail_on_vms == SnailStart \/ SnailGetIps \/ SnailProbe \/ SnailAfterLoop \/ SnailRun

----------------------------------------------------------------------------
(* The readiness pollers *)

InitReady ==
    /\ \E e \in Environments : hv = e.hv /\ leases = e.leases /\ marker = e.marker
    /\ pc = "start" /\ outcome = "none"
    /\ last_probe = "none"
    /\ ip = None /\ now = 0 /\ port_open = FALSE /\ port_checks = 0 /\ report = "none"
    /\ IdleSnail /\ IdleStatus /\ IdleReader /\ IdleCreate /\ IdleLife /\ IdleImage /\ IdleSort /\ IdleCall
    /\ \/ /\ cmd = "wait_for_ssh"
          /\ vm_name \in Names
          /\ Defined(hv) \subseteq {vm_name}
          /\ timeout \in {MaxTimeout - 1, MaxTimeout}
          /\ interval \in {1, MaxInterval}
       \/ /\ cmd = "run_snail_on_vms"
          /\ vm_name = None /\ timeout = 0 /\ interval = 0

NextReady == wait_for_ssh \/ run_snail_on_vms

SpecReady == InitReady /\ [][NextReady]_vars

----------------------------------------------------------------------------
(* Claims about the readiness pollers *)

\* C1: in wait_for_ssh and in the per-VM loop of run_snail_on_vms, a probe
\* whose authenticated echo command succeeds makes the poller report success
\* for that VM at that very check; success is reported (the VM enters
\* ssh_ready) in no other step; and a VM that was reported ready is never
\* probed again.  The boot-finished marker plays no part (see the witness).
C1_SuccessAtFirstGoodProbe ==
    [][ /\ (WaitSshProbe /\ last_probe' = "ok") => (report' = "success" /\ pc' = "done")
        /\ (report' = "success" /\ report # "success") => (WaitSshProbe /\ last_probe' = "ok")
        /\ report = "success" => ~(WaitPortCheck \/ WaitSshProbe)
        /\ (SnailProbe /\ last_probe' = "ok")
              => (ssh_ready' = Append(ssh_ready, vm_ips[idx]) /\ pc' = "after_loop")
        /\ ssh_ready' # ssh_ready => (SnailProbe /\ last_probe' = "ok")
        /\ SnailProbe => vm_ips[idx] \notin Range(ssh_ready)
      ]_vars

\* a VM without the boot-finished marker was reported ready at a later check
\* than the first
C1_Witness ==
    /\ cmd = "run_snail_on_vms" /\ pc = "after_loop"
    /\ ssh_connected /\ attempt > 0 /\ last_probe = "ok"
    /\ vm_ips[idx] \in Range(ssh_ready)
    /\ ~marker[vm_ips[idx]]

\* C2: a poll of a VM whose SSH never becomes reachable ends with the timeout
\* result, at most the deadline plus one poll interval after it began.
C2_TimeoutWithinDeadlinePlusInterval ==
    /\ (cmd = "wait_for_ssh" /\ pc = "done" /\ ip # None /\ last_probe # "ok")
          => (report = "timeout" /\ now <= timeout + interval)
    /\ (cmd = "run_snail_on_vms" /\ pc \in {"after_loop", "done"} /\ vm_ips # <<>>
          /\ last_probe \notin {"ok", "none"} /\ ~ssh_connected)
          => (outcome # "exception" /\ now <= max_wait_time + check_interval)

\* C3: when the sweep of run_snail_on_vms is over, every VM that had an
\* address is in exactly one of the ready and not-ready sets, and the workload
\* ran on exactly the ready ones.
C3_SweepPartitionsAndRunsReady ==
    (cmd = "run_snail_on_vms" /\ pc = "done" /\ vm_ips # <<>>) =>
        /\ outcome = "ok"
        /\ \A n \in Range(vm_ips) : (n \in Range(ssh_ready)) # (n \in Range(not_ready))
        /\ {n \in Names : results[n] # "none"} = Range(ssh_ready)

----------------------------------------------------------------------------
(* vms.py: check_cloud_init_complete, and commands.py: show_status *)

\* "ready"
ready == <<"r", "e", "a", "d", "y">>

\* -o ConnectTimeout=3 and timeout=5 of the cloud-init probe
CloudInitProbeTimeout == 5

\* stdout of  test -f /var/lib/cloud/instance/boot-finished && echo 'ready'
\* || echo 'not-ready'  in a guest where the marker is present (m) or absent
BootFinishedTest(m) ==
    IF m THEN ready \o <<"\n">> ELSE <<"n", "o", "t", "-">> \o ready \o <<"\n">>

\* raised: run_command let TimeoutExpired through; value: the returned bool
check_cloud_init_complete(o, m) ==
    IF o = "hang"
    THEN [raised |-> TRUE, value |-> FALSE]
    ELSE LET result == ssh(o, BootFinishedTest(m))
         IN  [raised |-> FALSE,
              value |-> result.returncode = 0 /\ Contains(ready, result.stdout)]

StatusStart ==
    /\ cmd = "show_status" /\ pc = "start"
    /\ \E ok \in BOOLEAN :
        LET got == get_vm_list(hv, ok) IN
        /\ vms' = got
        /\ IF got = <<>>
           THEN pc' = "done" /\ outcome' = "ok"
           ELSE pc' = "rows" /\ outcome' = outcome
    /\ UNCHANGED <<frameStatus, varsEnv, cmd, varsProbe, as_json, check_cloudinit, rows>>

\* one pass of  for vm in vms  (either output format); the last pass ends the
\* command
StatusRow ==
    /\ cmd = "show_status" /\ pc = "rows"
    /\ LET vm == vms[Len(rows) + 1] IN
       \E okState \in BOOLEAN, okIp \in BOOLEAN, o \in ProbeOutcomes :
        LET state == get_vm_state(hv, vm, okState)
            addr == IF state = "running" THEN get_vm_ip(hv, leases, vm, okIp) ELSE None
            probed == state = "running" /\ check_cloudinit /\ addr # None
            cloudinit_ready == check_cloud_init_complete(o, marker[vm])
            cloudinit ==
                IF probed THEN (IF cloudinit_ready.value THEN "Ready" ELSE "Running...")
                ELSE IF ~check_cloudinit \/ as_json THEN "absent"
                ELSE IF state = "running" THEN "No IP"
                ELSE "-"
            row == [name |-> vm, state |-> state, ip |-> addr, cloudinit |-> cloudinit]
        IN  /\ last_probe' = IF probed THEN o ELSE last_probe
            /\ IF probed /\ cloudinit_ready.raised
               THEN /\ rows' = rows /\ pc' = "done" /\ outcome' = "exception"
               ELSE /\ rows' = Append(rows, row)
                    /\ IF Len(rows) + 1 = Len(vms)
                       THEN pc' = "done" /\ outcome' = "ok"
                       ELSE pc' = "rows" /\ outcome' = outcome
    /\ UNCHANGED <<frameStatus, varsEnv, cmd, as_json, check_cloudinit, vms>>

show_status == StatusStart \/ StatusRow

InitStatus ==
    /\ \E e \in Environments : hv = e.hv /\ leases = e.leases /\ marker = e.marker
    /\ cmd = "show_status" /\ pc = "start" /\ outcome = "none"
    /\ last_probe = "none"
    /\ IdleWait /\ IdleSnail /\ IdleReader /\ IdleCreate /\ IdleLife /\ IdleImage /\ IdleSort /\ IdleCall
    /\ as_json \in BOOLEAN /\ check_cloudinit \in BOOLEAN
    /\ vms = <<>> /\ rows = <<>>

SpecStatus == InitStatus /\ [][show_status]_vars

\* C4: show_status reports a VM as cloud-init ready only if the boot-finished
\* marker is present in the guest: a probe that ran but found no marker gives
\* "not ready".
C4_ReadyOnlyWithMarker ==
    \A i \in 1..Len(rows) : rows[i].cloudinit = "Ready" => marker[rows[i].name]

\* C5: whatever becomes of the ssh call, the cloud-init check raises nothing,
\* and a status display with cloud-init checking has a row for every VM.
C5_UnreachableIsNotReady ==
    (cmd = "show_status" /\ pc = "done" /\ check_cloudinit)
        => (outcome = "ok" /\ Len(rows) = Len(vms))

----------------------------------------------------------------------------
(* vms.py: the reader functions, each called once on an inventory that does
   not change; every virsh query of a call exits 0 or not *)

Ended(ok) == IF ok THEN "ok" ELSE "failed"

CallVmList ==
    /\ cmd = "reader" /\ queried["get_vm_list"] = "no"
    /\ \E ok \in BOOLEAN :
        /\ answer' = [answer EXCEPT !["get_vm_list"] = get_vm_list(hv, ok)]
        /\ queried' = [queried EXCEPT !["get_vm_list"] = Ended(ok)]
    /\ UNCHANGED <<frameReader, varsEnv, varsCmd>>

CallRunningVms ==
    /\ cmd = "reader" /\ queried["get_running_vms"] = "no"
    /\ \E ok \in BOOLEAN :
        /\ answer' = [answer EXCEPT !["get_running_vms"] = get_running_vms(hv, ok)]
        /\ queried' = [queried EXCEPT !["get_running_vms"] = Ended(ok)]
    /\ UNCHANGED <<frameReader, varsEnv, varsCmd>>

\* the nested list query is only issued when the list --all query exited 0
CallStoppedVms ==
    /\ cmd = "reader" /\ queried["get_stopped_vms"] = "no"
    /\ \E okAll \in BOOLEAN, okRun \in BOOLEAN :
        /\ ~okAll => okRun
        /\ answer' = [answer EXCEPT !["get_stopped_vms"] = get_stopped_vms(hv, okAll, okRun)]
        /\ queried' = [queried EXCEPT !["get_stopped_vms"] =
                          IF ~okAll THEN "failed"
                          ELSE IF ~okRun THEN "failed running" ELSE "ok"]
    /\ UNCHANGED <<frameReader, varsEnv, varsCmd>>

CallVmIp ==
    /\ cmd = "reader" /\ queried["get_vm_ip"] = "no"
    /\ \E ok \in BOOLEAN :
        LET result == IF ok THEN virsh_domifaddr(hv, leases, vm_name) ELSE QueryFailed IN
        /\ answer' = [answer EXCEPT !["get_vm_ip"] = get_vm_ip(hv, leases, vm_name, ok)]
        /\ queried' = [queried EXCEPT !["get_vm_ip"] = Ended(result.returncode = 0)]
    /\ UNCHANGED <<frameReader, varsEnv, varsCmd>>

CallVmState ==
    /\ cmd = "reader" /\ queried["get_vm_state"] = "no"
    /\ \E ok \in BOOLEAN :
        LET result == IF ok THEN virsh_domstate(hv, vm_name) ELSE QueryFailed IN
        /\ answer' = [answer EXCEPT !["get_vm_state"] = get_vm_state(hv, vm_name, ok)]
        /\ queried' = [queried EXCEPT !["get_vm_state"] = Ended(result.returncode = 0)]
    /\ UNCHANGED <<frameReader, varsEnv, varsCmd>>

InitReader ==
    /\ \E e \in Environments : hv = e.hv /\ leases = e.leases /\ marker = e.marker
    /\ \A n \in Names : ~marker[n]
    /\ cmd = "reader" /\ pc = "start" /\ outcome = "none"
    /\ last_probe = "none"
    /\ vm_name \in Names /\ timeout = 0 /\ interval = 0 /\ ip = None /\ now = 0
    /\ port_open = FALSE /\ port_checks = 0 /\ report = "none"
    /\ IdleSnail /\ IdleStatus /\ IdleReader /\ IdleCreate /\ IdleLife /\ IdleImage /\ IdleSort /\ IdleCall

NextReader == CallVmList \/ CallRunningVms \/ CallStoppedVms \/ CallVmIp \/ CallVmState

SpecReader == InitReader /\ [][NextReader]_vars

\* C6: on one unchanged inventory (every query answered), the stopped and
\* the running listings are disjoint and together they are, as a set,
\* get_vm_list().
C6_StoppedRunningPartitionVmList ==
    (queried["get_vm_list"] = "ok" /\ queried["get_running_vms"] = "ok"
        /\ queried["get_stopped_vms"] = "ok")
    => /\ Range(answer["get_stopped_vms"]) \cap Range(answer["get_running_vms"]) = {}
       /\ Range(answer["get_stopped_vms"]) \cup Range(answer["get_running_vms"])
             = Range(answer["get_vm_list"])

\* C7: a reader function one of whose hypervisor queries exited non-zero
\* returns the empty list, no address, or "unknown".
C7_FailedQueryGivesEmpty ==
    /\ queried["get_vm_list"] = "failed" => answer["get_vm_list"] = <<>>
    /\ queried["get_running_vms"] = "failed" => answer["get_running_vms"] = <<>>
    /\ queried["get_stopped_vms"] \in {"failed", "failed running"}
          => answer["get_stopped_vms"] = <<>>
    /\ queried["get_vm_ip"] = "failed" => answer["get_vm_ip"] = None
    /\ queried["get_vm_state"] = "failed" => answer["get_vm_state"] = "unknown"

----------------------------------------------------------------------------
(* images.py *)

fedora == <<"f", "e", "d", "o", "r", "a">>
debian == <<"d", "e", "b", "i", "a", "n">>
ubuntu == <<"u", "b", "u", "n", "t", "u">>
centos == <<"c", "e", "n", "t", "o", "s">>
rhel == <<"r", "h", "e", "l">>
suse == <<"s", "u", "s", "e">>
\* a distribution tag outside the fixed set
bogus == <<"b", "o", "g", "u", "s">>

cloud_base == <<"-", "c", "l", "o", "u", "d", "-", "b", "a", "s", "e", "-">>
qcow2 == <<".", "q", "c", "o", "w", "2">>
x86_64_kvm == <<"-", "x", "8", "6", "_", "6", "4", "-", "k", "v", "m">>
sles == <<"s", "l", "e", "s">>

\* config host.image_dir ("/var/lib/libvirt/images" by default), here "/i"
image_dir == <<"/", "i">>

\* Python's  s.replace(a, b)  for single characters
replace(s, a, b) == [i \in 1..Len(s) |-> IF s[i] = a THEN b ELSE s[i]]

\* Path(image_dir) / name
PathJoin(dir, name) == dir \o <<"/">> \o name

get_base_image_path(distro, version, dir) ==
    IF distro = fedora THEN PathJoin(dir, fedora \o cloud_base \o version \o qcow2)
    ELSE IF distro = debian THEN PathJoin(dir, debian \o cloud_base \o version \o qcow2)
    ELSE IF distro = ubuntu
    THEN PathJoin(dir, ubuntu \o cloud_base \o replace(version, ".", "_") \o qcow2)
    ELSE IF distro = centos THEN PathJoin(dir, centos \o cloud_base \o version \o qcow2)
    ELSE IF distro = rhel THEN PathJoin(dir, rhel \o <<"-">> \o version \o x86_64_kvm \o qcow2)
    ELSE IF distro = suse
    THEN LET version_key == replace(version, ".", "_")
         IN  PathJoin(dir, suse \o cloud_base
                 \o (IF startswith(version, sles)
                     THEN sles \o <<"_">> \o SubSeq(version_key, 5, Len(version_key))
                     ELSE version_key)
                 \o qcow2)
    ELSE None

\* how far the directory of the images can be read: by everyone, only with
\* password-less sudo, or not at all
AccessModes == {"open", "sudo", "closed"}

\* what the five probes of check_image_exists answer for a path: Path.exists,
\* Path.stat, ls, test -f, sudo -n test -f
ProbeTable(exists, mode) ==
    [k \in 1..5 |->
        IF mode = "open" THEN (IF exists THEN "found" ELSE "absent")
        ELSE IF mode = "sudo" /\ k = 5 THEN (IF exists THEN "found" ELSE "absent")
        ELSE "denied"]

\* the cascade: true at the first probe that finds the file, every other
\* answer moves on to the next probe
check_image_exists(table) == \E k \in 1..5 : table[k] = "found"

----------------------------------------------------------------------------
(* vms.py: get_available_distro_versions *)

\* config vms.distributions: name, default_version and the keys of
\* available_versions, in the order of the file
distributions ==
    <<[name |-> fedora, default_version |-> <<"4", "2">>, available_versions |-> <<<<"4", "1">>, <<"4", "2">>>>],
      [name |-> debian, default_version |-> <<"1", "2">>, available_versions |-> <<<<"1", "2">>>>]>>

_check_distro_version_image(distro, version, dir, fs, mode) ==
    LET base_image == get_base_image_path(distro, version, dir) IN
    IF base_image = None THEN FALSE
    ELSE check_image_exists(ProbeTable(base_image \in fs, mode))

numeric_sort(v) == IF IsDigits(v) THEN ParseInt(v) ELSE 0

\* the test shared by ubuntu_sort, rhel_sort and suse_sort
MajorMinor(v) ==
    /\ HasChar(".", v)
    /\ Len(split(v, ".")) = 2 /\ IsDigits(split(v, ".")[1]) /\ IsDigits(split(v, ".")[2])

ubuntu_sort(v) ==
    IF MajorMinor(v)
    THEN ParseInt(split(v, ".")[1]) * 100 + ParseInt(split(v, ".")[2])
    ELSE 0

rhel_sort(v) ==
    IF HasChar(".", v)
    THEN (IF MajorMinor(v)
          THEN ParseInt(split(v, ".")[1]) * 1000 + ParseInt(split(v, ".")[2])
          ELSE 0)
    ELSE IF IsDigits(v) THEN ParseInt(v) * 1000
    ELSE 0

tumbleweed == <<"t", "u", "m", "b", "l", "e", "w", "e", "e", "d">>

\* Python's  s.replace(".", "")
WithoutDots(s) == SelectSeq(s, LAMBDA c : c # ".")

suse_sort(v) ==
    IF startswith(v, sles)
    THEN (IF IsDigits(WithoutDots(SubSeq(v, 5, Len(v))))
          THEN 20000 + ParseInt(WithoutDots(SubSeq(v, 5, Len(v))))
          ELSE 0)
    ELSE IF v = tumbleweed THEN 30000
    ELSE IF MajorMinor(v)
    THEN ParseInt(split(v, ".")[1]) * 100 + ParseInt(split(v, ".")[2])
    ELSE 0

\* the key the distribution's branch sorts its versions by; the list of a
\* distribution outside the branches stays in the order of the file
version_sort_key(distro_name, v) ==
    IF distro_name \in {fedora, debian, centos} THEN numeric_sort(v)
    ELSE IF distro_name = ubuntu THEN ubuntu_sort(v)
    ELSE IF distro_name = rhel THEN rhel_sort(v)
    ELSE IF distro_name = suse THEN suse_sort(v)
    ELSE 0

\* a list of (key, version) pairs, stably sorted with the largest key first
RECURSIVE sort_pairs_reverse(_)
sort_pairs_reverse(pairs) ==
    IF pairs = <<>> THEN <<>>
    ELSE LET i == CHOOSE k \in 1..Len(pairs) :
                    /\ \A j \in 1..Len(pairs) : pairs[j][1] <= pairs[k][1]
                    /\ \A j \in 1..(k - 1) : pairs[j][1] < pairs[k][1]
         IN  <<pairs[i]>>
             \o sort_pairs_reverse(SubSeq(pairs, 1, i - 1) \o SubSeq(pairs, i + 1, Len(pairs)))

\* versions_list.sort(key=..., reverse=True)
sort_reverse(distro_name, versions_list) ==
    LET pairs == [k \in 1..Len(versions_list) |->
                    <<version_sort_key(distro_name, versions_list[k]), versions_list[k]>>]
        ordered == sort_pairs_reverse(pairs)
    IN  [k \in 1..Len(ordered) |-> ordered[k][2]]

\* the version found for one distribution, None when it has no image
found_version(distro_config, dir, fs, mode) ==
    LET Exists(v) == _check_distro_version_image(distro_config.name, v, dir, fs, mode)
        versions_list == sort_reverse(distro_config.name, distro_config.available_versions)
        hits == SelectSeq(versions_list, Exists)
    IN  IF /\ distro_config.default_version # None
           /\ distro_config.default_version \in Range(distro_config.available_versions)
           /\ Exists(distro_config.default_version)
        THEN distro_config.default_version
        ELSE IF hits # <<>> THEN hits[1] ELSE None

\* the pairs (distribution, version) of the returned dict, in insertion order
get_available_distro_versions(config, dir, fs, mode) ==
    LET Found(distro_config) == found_version(distro_config, dir, fs, mode) # None
        Item(distro_config) == <<distro_config.name, found_version(distro_config, dir, fs, mode)>>
        having == SelectSeq(config, Found)
    IN  [i \in 1..Len(having) |-> Item(having[i])]

----------------------------------------------------------------------------
(* commands.py: create_vms and create_all_vms *)

\* largest number of specs in a batch
MaxSpecs == 2

\* config vms.default_distribution
default_distro == fedora

\* the spec texts of the model: "fedora:42", "debian:12", "bogus:1" and "41"
SpecTexts ==
    {fedora \o <<":">> \o <<"4", "2">>, debian \o <<":">> \o <<"1", "2">>, bogus \o <<":">> \o <<"1">>, <<"4", "1">>}

\* the batches: vm_specs as built from --specs, --versions or the defaults
Batches == UNION {[1..n -> SpecTexts] : n \in 1..MaxSpecs}

\* the image files that may exist
ImageFiles ==
    {get_base_image_path(fedora, <<"4", "2">>, image_dir),
     get_base_image_path(fedora, <<"4", "1">>, image_dir),
     get_base_image_path(debian, <<"1", "2">>, image_dir)}

\* if ":" in spec: spec.split(":", 1), else the default distribution
spec_distro(spec) ==
    IF HasChar(":", spec) THEN SubSeq(spec, 1, Find(":", spec) - 1) ELSE default_distro

spec_version(spec) ==
    IF HasChar(":", spec) THEN SubSeq(spec, Find(":", spec) + 1, Len(spec)) ELSE spec

\* the domains create-vms.sh can define
Creatable == {VmOne, VmTen}

\* the inventories create-vms.sh can leave behind: it defines and starts any
\* number of new domains, whatever its exit status
Provisioned(h) ==
    {g \in Inventories :
        \A n \in Names : IF h[n] = "absent" /\ n \in Creatable
                         THEN g[n] \in {"absent", "running"}
                         ELSE g[n] = h[n]}

\* "VMs created!" exactly when the listing after the script is not empty
Created(listing) == Len(listing) > 0

\* one pass of  for spec in vm_specs: an unknown distribution ends the
\* command, a missing image is noted
CreateCheck ==
    /\ cmd = "create_vms" /\ pc = "check"
    /\ LET spec == vm_specs[spec_idx]
           base_image == get_base_image_path(spec_distro(spec), spec_version(spec), image_dir)
       IN  IF base_image = None
           THEN /\ unknown' = Append(unknown, spec_distro(spec))
                /\ pc' = "done" /\ outcome' = "exit1"
                /\ UNCHANGED <<missing_images, spec_idx>>
           ELSE /\ missing_images' =
                      IF ~check_image_exists(ProbeTable(base_image \in files, access))
                      THEN Append(missing_images, <<spec_distro(spec), spec_version(spec)>>)
                      ELSE missing_images
                /\ IF spec_idx < Len(vm_specs)
                   THEN spec_idx' = spec_idx + 1 /\ pc' = "check"
                   ELSE spec_idx' = spec_idx /\ pc' = "gate"
                /\ UNCHANGED <<unknown, outcome>>
    /\ UNCHANGED <<frameCreate, varsEnv, cmd, report, files, access, vm_specs, script_runs>>

\* if missing_images: the report of the whole list and exit
CreateGate ==
    /\ cmd = "create_vms" /\ pc = "gate"
    /\ IF missing_images # <<>>
       THEN pc' = "done" /\ outcome' = "exit1" /\ report' = "missing"
       ELSE pc' = "provision" /\ outcome' = outcome /\ report' = report
    /\ UNCHANGED <<frameFiles, varsEnv, cmd, vm_specs, spec_idx, missing_images, unknown,
                   script_runs>>

\* create_all_vms up to the script: one spec per distribution with an image
CreateAllSelect ==
    /\ cmd = "create_all_vms" /\ pc = "select"
    /\ LET available_distros ==
               get_available_distro_versions(distributions, image_dir, files, access)
           names == sorted({available_distros[i][1] : i \in 1..Len(available_distros)})
           Version(d) == (CHOOSE i \in 1..Len(available_distros) : available_distros[i][1] = d)
       IN  IF available_distros = <<>>
           THEN /\ pc' = "done" /\ outcome' = "exit1" /\ report' = "no images"
                /\ vm_specs' = vm_specs
           ELSE /\ pc' = "provision" /\ outcome' = outcome /\ report' = report
                /\ vm_specs' = [i \in 1..Len(names) |->
                                   names[i] \o <<":">> \o available_distros[Version(names[i])][2]]
    /\ UNCHANGED <<frameFiles, varsEnv, cmd, spec_idx, missing_images, unknown, script_runs>>

\* the script, whose exit status is not looked at, then get_vm_list() and the
\* verdict
CreateProvision ==
    /\ cmd \in {"create_vms", "create_all_vms"} /\ pc = "provision"
    /\ script_runs' = script_runs + 1
    /\ \E after \in Provisioned(hv), ok \in BOOLEAN :
        /\ hv' = after
        /\ IF Created(get_vm_list(after, ok))
           THEN outcome' = "ok" /\ report' = "created"
           ELSE outcome' = "exit1" /\ report' = "failed"
    /\ pc' = "done"
    /\ UNCHANGED <<frameFiles, leases, marker, cmd, vm_specs, spec_idx, missing_images,
                   unknown>>

InitCreate ==
    /\ hv \in Inventories /\ \A n \in Names : hv[n] # "running"
    /\ leases = [n \in Names |-> FALSE] /\ marker = [n \in Names |-> FALSE]
    /\ outcome = "none" /\ last_probe = "none"
    /\ IdleWait /\ IdleSnail /\ IdleStatus /\ IdleReader /\ IdleLife /\ IdleImage /\ IdleSort /\ IdleCall
    /\ files \in SUBSET ImageFiles /\ access \in AccessModes
    /\ missing_images = <<>> /\ unknown = <<>> /\ script_runs = 0
    /\ \/ cmd = "create_vms" /\ pc = "check" /\ vm_specs \in Batches /\ spec_idx = 1
       \/ cmd = "create_all_vms" /\ pc = "select" /\ vm_specs = <<>> /\ spec_idx = 0

NextCreate == CreateCheck \/ CreateGate \/ CreateAllSelect \/ CreateProvision

SpecCreate == InitCreate /\ [][NextCreate]_vars

\* the base image of the i-th spec of the batch, None for an unknown distribution
BaseImageOf(i) ==
    get_base_image_path(spec_distro(vm_specs[i]), spec_version(vm_specs[i]), image_dir)

\* the positions of the specs whose distribution is known
ValidSpecs == {i \in 1..Len(vm_specs) : BaseImageOf(i) # None}

\* the positions of the specs whose image file does not exist
MissingSpecs == {i \in ValidSpecs : BaseImageOf(i) \notin files}

\* C8: when the image of at least one spec of the batch is missing, create_vms
\* never invokes the provisioning script, exits non-zero, and has reported
\* every spec of the batch whose image is missing.
C8_MissingImagesAbortWithFullList ==
    (cmd = "create_vms" /\ MissingSpecs # {}) =>
        /\ script_runs = 0
        /\ pc = "done" =>
              /\ outcome = "exit1"
              /\ \A i \in MissingSpecs :
                    <<spec_distro(vm_specs[i]), spec_version(vm_specs[i])>>
                        \in Range(missing_images)

\* C9: a spec with an unknown distribution is reported, its sibling specs are
\* still all checked, and when the valid specs have their images the batch is
\* provisioned.
C9_UnknownDistroFatalToItsSpecOnly ==
    (cmd = "create_vms" /\ pc = "done" /\ ValidSpecs # DOMAIN vm_specs) =>
        /\ unknown # <<>>
        /\ spec_idx = Len(vm_specs)
        /\ (ValidSpecs # {} /\ missing_images = <<>>) => script_runs = 1

\* C10: the step that runs the provisioning script reports success only if
\* the inventory afterwards holds more tool-owned VMs than before, and reports
\* failure when the inventory did not grow.
C10_SuccessOnlyIfInventoryGrew ==
    [][ CreateProvision =>
          /\ report' = "created"
                => Len(get_vm_list(hv', TRUE)) > Len(get_vm_list(hv, TRUE))
          /\ hv' = hv => report' = "failed"
      ]_vars

----------------------------------------------------------------------------
(* commands.py: start_vms, shutdown_vms, destroy_vms *)

LifeCommands == {"start_vms", "shutdown_vms", "destroy_vms"}

\* the first-boot medium of a defined VM: cloud-init.iso attached and present,
\* attached and missing with both, one or none of user-data and meta-data, or
\* no medium at all
MediaStates ==
    {[attached |-> TRUE, iso |-> TRUE, user_data |-> TRUE, meta_data |-> TRUE],
     [attached |-> TRUE, iso |-> FALSE, user_data |-> TRUE, meta_data |-> TRUE],
     [attached |-> TRUE, iso |-> FALSE, user_data |-> TRUE, meta_data |-> FALSE],
     [attached |-> TRUE, iso |-> FALSE, user_data |-> FALSE, meta_data |-> FALSE],
     NoMedium}

\* what can become of the genisoimage call: exit 0, a non-zero exit
\* (CalledProcessError), or no such executable (FileNotFoundError)
GenOutcomes == {"ok", "fail", "notfound"}

\* result.stdout of a name listing: one name per line
RECURSIVE Joined(_)
Joined(lines) == IF lines = <<>> THEN <<>> ELSE lines[1] \o <<"\n">> \o Joined(Tail(lines))

\* the test  vm_name not in result.stdout  on virsh list --all --name
NotFound(name, h, ok) == ~Contains(name, IF ok THEN Joined(sorted(Defined(h))) ELSE <<>>)

\* state = stdout.strip() if returncode == 0 else "unknown"
domstate(h, n, ok) ==
    LET state_result == IF ok THEN virsh_domstate(h, n) ELSE QueryFailed IN
    IF state_result.returncode = 0 THEN state_result.stdout ELSE "unknown"

\* one entry of the list of mutating commands that were run
Ran(verb, vm, success) == [verb |-> verb, vm |-> vm, rc |-> IF success THEN 0 ELSE 1]

\* if not force: if not click.confirm(...): return
Aborted_Never(f, yes) == FALSE
Aborted(f, yes) == ~f /\ ~yes

\* the command up to the confirmation: the single-VM checks, or the listing
LifeBegin ==
    /\ cmd \in LifeCommands /\ pc = "start"
    /\ \E okAll \in BOOLEAN, okRun \in BOOLEAN :
        IF vm_name # None
        THEN LET state == domstate(hv, vm_name, okRun) IN
             IF NotFound(vm_name, hv, okAll)
             THEN /\ report' = "not found" /\ pc' = "done" /\ outcome' = "exit1"
                  /\ targets' = targets
             ELSE IF cmd = "start_vms" /\ state = "running"
             THEN /\ report' = "already running" /\ pc' = "done" /\ outcome' = "ok"
                  /\ targets' = targets
             ELSE IF cmd = "shutdown_vms" /\ state # "running"
             THEN /\ report' = "not running" /\ pc' = "done" /\ outcome' = "ok"
                  /\ targets' = targets
             ELSE /\ report' = report /\ pc' = "confirm" /\ outcome' = outcome
                  /\ targets' = <<vm_name>>
        ELSE LET found == IF cmd = "destroy_vms" THEN get_vm_list(hv, okAll)
                          ELSE IF cmd = "shutdown_vms" THEN get_running_vms(hv, okRun)
                          ELSE get_stopped_vms(hv, okAll, okRun)
             IN  /\ targets' = found
                 /\ IF found = <<>>
                    THEN report' = "no vms" /\ pc' = "done" /\ outcome' = "ok"
                    ELSE report' = report /\ pc' = "confirm" /\ outcome' = outcome
    /\ UNCHANGED <<frameLife, varsEnv, cmd, vm_name, force, confirmed, t_idx, issued, said,
                   media, disks, cloudinit_exists, vm_list_file, calls, prior>>

\* the confirmation prompt, skipped with --force
LifeConfirm ==
    /\ cmd \in LifeCommands /\ pc = "confirm"
    /\ \E yes \in BOOLEAN :
        /\ confirmed' = IF force THEN confirmed ELSE IF yes THEN "yes" ELSE "no"
        /\ IF Aborted(force, yes)
           THEN report' = "aborted" /\ pc' = "done" /\ outcome' = "ok"
           ELSE report' = report /\ pc' = "loop" /\ outcome' = outcome
    /\ UNCHANGED <<frameLife, varsEnv, cmd, vm_name, force, targets, t_idx, issued, said,
                   media, disks, cloudinit_exists, vm_list_file, calls, prior>>

\* where the loop goes after one VM
LifeStep ==
    /\ t_idx' = t_idx + 1
    /\ pc' = "loop" /\ outcome' = outcome

\* _ensure_cloudinit_iso_or_detach: the medium is missing and both files it is
\* made from exist
can_recreate(m) == ~m.iso /\ m.user_data /\ m.meta_data

\* _ensure_cloudinit_iso_or_detach reaches the detach part: the medium is
\* missing and was not recreated
todetach_always(m, recreated) == TRUE
todetach(m, recreated) == ~m.iso /\ ~recreated

\* _start_single_vm(targets[t_idx + 1]): _ensure_cloudinit_iso_or_detach, then
\* virsh start.  gen, blk, det, st: what becomes of genisoimage, domblklist,
\* detach-disk and start
StartOne ==
    /\ cmd = "start_vms" /\ pc = "loop" /\ t_idx < Len(targets)
    /\ LET vm == targets[t_idx + 1]
           m == media[vm]
       IN  \E gen \in GenOutcomes, blk \in BOOLEAN, det \in BOOLEAN, st \in BOOLEAN :
           LET regenerate == can_recreate(m)
               raised == regenerate /\ gen = "notfound"
               recreated == regenerate /\ gen = "ok"
               listed == todetach(m, recreated) /\ blk /\ m.attached
               detached == listed /\ det
               repaired == [attached |-> m.attached /\ ~detached,
                            iso |-> m.iso \/ recreated,
                            user_data |-> m.user_data, meta_data |-> m.meta_data]
               ran_gen == IF regenerate /\ ~raised THEN <<Ran("genisoimage", vm, recreated)>>
                          ELSE <<>>
               ran_detach == IF listed THEN <<Ran("detach-disk", vm, detached)>> ELSE <<>>
               started == st /\ hv[vm] = "shut off" /\ (repaired.attached => repaired.iso)
           IN  IF raised
               THEN /\ pc' = "done" /\ outcome' = "exception"
                    /\ UNCHANGED <<hv, media, issued, said, t_idx>>
               ELSE /\ media' = [media EXCEPT ![vm] = repaired]
                    /\ issued' = issued \o ran_gen \o ran_detach \o <<Ran("start", vm, started)>>
                    /\ hv' = IF started THEN [hv EXCEPT ![vm] = "running"] ELSE hv
                    /\ said' = [said EXCEPT ![vm] = IF started THEN "started"
                                                    ELSE "failed to start"]
                    /\ LifeStep
    /\ UNCHANGED <<frameLife, leases, marker, cmd, vm_name, report, force, confirmed, targets,
                   disks, cloudinit_exists, vm_list_file, calls, prior>>

\* _shutdown_single_vm(targets[t_idx + 1]).  sh, stops, q, ds: virsh shutdown
\* exits 0, the guest is down after the two seconds, the state query exits 0,
\* virsh destroy works
ShutdownOne ==
    /\ cmd = "shutdown_vms" /\ pc = "loop" /\ t_idx < Len(targets)
    /\ LET vm == targets[t_idx + 1] IN
       \E sh \in BOOLEAN, stops \in BOOLEAN, q \in BOOLEAN, ds \in BOOLEAN :
           LET accepted == sh /\ hv[vm] = "running"
               waited == IF accepted /\ stops THEN [hv EXCEPT ![vm] = "shut off"] ELSE hv
               state == domstate(waited, vm, q)
               forcing == IF accepted THEN state = "running" ELSE TRUE
               powered_off == forcing /\ ds /\ waited[vm] = "running"
           IN  /\ issued' = issued \o <<Ran("shutdown", vm, accepted)>>
                                   \o (IF forcing THEN <<Ran("destroy", vm, powered_off)>>
                                       ELSE <<>>)
               /\ hv' = IF powered_off THEN [waited EXCEPT ![vm] = "shut off"] ELSE waited
               /\ said' = [said EXCEPT ![vm] = IF forcing THEN "forced shutdown"
                                                ELSE "shutdown gracefully"]
               /\ LifeStep
    /\ UNCHANGED <<frameLife, leases, marker, cmd, vm_name, report, force, confirmed, targets,
                   media, disks, cloudinit_exists, vm_list_file, calls, prior>>

\* _destroy_single_vm(targets[t_idx + 1], image_dir).  q, ds, un, st, rm: the
\* state query exits 0, virsh destroy works, virsh undefine works, undefine
\* removed the storage, rm -f works.  A domain undefined while running stays
\* in the listing until it stops.
DestroyOne ==
    /\ cmd = "destroy_vms" /\ pc = "loop" /\ t_idx < Len(targets)
    /\ LET vm == targets[t_idx + 1] IN
       \E q \in BOOLEAN, ds \in BOOLEAN, un \in BOOLEAN, st \in BOOLEAN, rm \in BOOLEAN :
           LET state == domstate(hv, vm, q)
               powered_off == state = "running" /\ ds
               stopped == IF powered_off THEN [hv EXCEPT ![vm] = "shut off"] ELSE hv
               undefined == un /\ stopped[vm] # "absent"
               left == IF undefined /\ st THEN disks \ {vm} ELSE disks
               disk_path_exists == vm \in left
           IN  /\ issued' = issued
                     \o (IF state = "running" THEN <<Ran("destroy", vm, powered_off)>> ELSE <<>>)
                     \o <<Ran("undefine", vm, undefined)>>
                     \o (IF disk_path_exists THEN <<Ran("rm", vm, rm)>> ELSE <<>>)
               /\ hv' = IF undefined /\ stopped[vm] = "shut off"
                        THEN [stopped EXCEPT ![vm] = "absent"] ELSE stopped
               /\ media' = IF undefined
                           THEN [media EXCEPT ![vm] = [@ EXCEPT !.attached = FALSE]]
                           ELSE media
               /\ disks' = IF disk_path_exists /\ rm THEN left \ {vm} ELSE left
               /\ said' = [said EXCEPT ![vm] = "destroyed"]
               /\ LifeStep
    /\ UNCHANGED <<frameLife, leases, marker, cmd, vm_name, report, force, confirmed, targets,
                   cloudinit_exists, vm_list_file, calls, prior>>

\* after the loop: destroy-all removes cloudinit_dir and vm-list.txt (a failed
\* removal is a warning), then the closing line.  rt, ul: rmtree and unlink work
LifeFinish ==
    /\ cmd \in LifeCommands /\ pc = "loop" /\ t_idx = Len(targets)
    /\ \E rt \in BOOLEAN, ul \in BOOLEAN :
        LET cleaning == cmd = "destroy_vms" /\ vm_name = None
            removed_dir == cleaning /\ cloudinit_exists /\ rt
            removed_file == cleaning /\ vm_list_file /\ ul
        IN  /\ issued' = issued
                  \o (IF cleaning /\ cloudinit_exists THEN <<Ran("rmtree", None, removed_dir)>>
                      ELSE <<>>)
                  \o (IF cleaning /\ vm_list_file THEN <<Ran("unlink", None, removed_file)>>
                      ELSE <<>>)
            /\ cloudinit_exists' = (cloudinit_exists /\ ~removed_dir)
            /\ vm_list_file' = (vm_list_file /\ ~removed_file)
            /\ media' = IF removed_dir
                        THEN [n \in Names |-> [attached |-> media[n].attached,
                                               iso |-> FALSE, user_data |-> FALSE,
                                               meta_data |-> FALSE]]
                        ELSE media
    /\ report' = IF vm_name # None THEN "one" ELSE "all"
    /\ pc' = "done" /\ outcome' = "ok"
    /\ UNCHANGED <<frameLife, varsEnv, cmd, vm_name, force, confirmed, targets, t_idx, said,
                   disks, calls, prior>>

\* the same destroy of one VM invoked once more
DestroyAgain ==
    /\ cmd = "destroy_vms" /\ pc = "done" /\ vm_name # None /\ calls = 1
    /\ calls' = 2 /\ prior' = [report |-> report, issued |-> issued, left |-> Defined(hv)]
    /\ pc' = "start" /\ outcome' = "none" /\ report' = "none"
    /\ confirmed' = "unasked" /\ targets' = <<>> /\ t_idx' = 0 /\ issued' = <<>>
    /\ UNCHANGED <<frameLife, varsEnv, cmd, vm_name, force, said, media, disks,
                   cloudinit_exists, vm_list_file>>

\* the VM named on the command line, None for the batch form
LifeNames == {None, VmOne, VmOther}

InitLife ==
    /\ hv \in Inventories
    /\ leases = [n \in Names |-> FALSE] /\ marker = [n \in Names |-> FALSE]
    /\ cmd \in LifeCommands /\ pc = "start" /\ outcome = "none"
    /\ vm_name \in LifeNames /\ timeout = 0 /\ interval = 0 /\ ip = None /\ now = 0
    /\ port_open = FALSE /\ port_checks = 0 /\ report = "none"
    /\ last_probe = "none"
    /\ IdleSnail /\ IdleStatus /\ IdleReader /\ IdleCreate /\ IdleImage /\ IdleSort /\ IdleCall
    /\ force \in BOOLEAN /\ confirmed = "unasked" /\ targets = <<>> /\ t_idx = 0
    /\ issued = <<>> /\ said = [n \in Names |-> "none"]
    /\ media \in [Names -> MediaStates]
    /\ \A n \in Names : (hv[n] = "absent" \/ ~startswith(n, prefix)) => media[n] = NoMedium
    \* the cases of a missing medium or file are drawn for one VM
    /\ \A n \in Names \ {VmOne} : media[n].attached => media[n].iso
    /\ disks = Defined(hv)
    /\ cloudinit_exists \in BOOLEAN
    /\ \A n \in Names : (media[n].iso \/ media[n].user_data \/ media[n].meta_data) => cloudinit_exists
    /\ vm_list_file = cloudinit_exists
    /\ calls = 1 /\ prior = NoCall

NextLife ==
    LifeBegin \/ LifeConfirm \/ StartOne \/ ShutdownOne \/ DestroyOne \/ LifeFinish
        \/ DestroyAgain

SpecLife == InitLife /\ [][NextLife]_vars

\* the commands the step from issued to issued' has run
NewlyIssued == SubSeq(issued', Len(issued) + 1, Len(issued'))

\* C11: whenever _start_single_vm issues virsh start for a VM, the definition
\* of that VM does not reference a cloud-init.iso that does not exist: the
\* medium was there, was regenerated, or was detached.
C11_NeverStartWithMissingMedium ==
    [][ StartOne =>
          \A i \in 1..Len(NewlyIssued) :
              NewlyIssued[i].verb = "start" =>
                  (media'[NewlyIssued[i].vm].attached => media'[NewlyIssued[i].vm].iso)
      ]_vars

\* C12: _shutdown_single_vm issues the graceful shutdown first and the forced
\* power-off only after it; when no forced power-off was issued the VM is not
\* running, and "shutdown gracefully" is printed only for a VM that is not
\* running.
C12_ForcedWheneverStillRunning ==
    [][ ShutdownOne =>
          LET vm == targets[t_idx + 1] IN
          /\ NewlyIssued[1].verb = "shutdown"
          /\ \A i \in 1..Len(NewlyIssued) : NewlyIssued[i].verb = "destroy" => i > 1
          /\ Len(NewlyIssued) = 1 => hv'[vm] # "running"
          /\ said'[vm] = "shutdown gracefully" => hv'[vm] # "running"
      ]_vars

\* the place of a command in the order of a destroy
DestroyRank(verb) ==
    IF verb = "destroy" THEN 1 ELSE IF verb = "undefine" THEN 2 ELSE IF verb = "rm" THEN 3 ELSE 4

\* C13: the commands of a destroy come in the order power-off, undefine,
\* removal of the disk file; once destroy has reported its VMs destroyed, no
\* such VM is defined, none of their disk files exists and cloudinit_dir is
\* gone.
C13_DestroyedMeansGone ==
    (cmd = "destroy_vms" /\ pc = "done" /\ report \in {"one", "all"}) =>
        /\ \A i \in 1..Len(issued), j \in 1..Len(issued) :
               (i < j /\ issued[i].vm = issued[j].vm /\ issued[i].vm # None)
                   => DestroyRank(issued[i].verb) < DestroyRank(issued[j].verb)
        /\ \A i \in 1..Len(targets) : hv[targets[i]] = "absent" /\ targets[i] \notin disks
        /\ ~cloudinit_exists

\* C14: when the destroy of one VM by name has undefined the VM and reported
\* it destroyed, and is invoked again, the second call reports "not found",
\* has run no mutating command and does not end in an exception.
C14_SecondDestroyReportsNotFound ==
    (cmd = "destroy_vms" /\ vm_name # None /\ calls = 2 /\ pc = "done"
        /\ prior.report = "one" /\ Ran("undefine", vm_name, TRUE) \in Range(prior.issued)
        /\ vm_name \notin prior.left) =>
        /\ report = "not found"
        /\ issued = <<>>
        /\ outcome = "exit1"

\* C15: in the batch form without --force, as long as the confirmation has
\* not been answered yes, no mutating command has been run and no step changes
\* the inventory, the media, the disk files or the scratch files.
C15_NoMutationWithoutConfirmation ==
    [][ (cmd \in LifeCommands /\ vm_name = None /\ ~force /\ confirmed' # "yes") =>
          /\ issued' = <<>>
          /\ UNCHANGED <<hv, media, disks, cloudinit_exists, vm_list_file>>
      ]_vars

\* a batch over at least one VM was declined and ended
C15_Witness ==
    /\ cmd \in LifeCommands /\ vm_name = None /\ ~force /\ confirmed = "no"
    /\ targets # <<>> /\ pc = "done" /\ report = "aborted"

\* the command that is the per-VM operation of cmd
PrimaryVerb ==
    IF cmd = "start_vms" THEN "start" ELSE IF cmd = "shutdown_vms" THEN "shutdown" ELSE "undefine"

\* C16: when a confirmed batch has ended, the per-VM operation was attempted
\* exactly once for every listed VM.
C16_EveryListedVmAttemptedOnce ==
    (cmd \in LifeCommands /\ vm_name = None /\ pc = "done" /\ (force \/ confirmed = "yes")) =>
        \A i \in 1..Len(targets) :
            Cardinality({k \in 1..Len(issued) :
                            issued[k].verb = PrimaryVerb /\ issued[k].vm = targets[i]}) = 1

\* C17: when the per-VM operation failed for a VM of the batch, the closing
\* line of the command is not "All N VM(s) have been ...".
C17_PartialFailureNotReportedAsAll ==
    (cmd \in LifeCommands /\ vm_name = None /\ pc = "done"
        /\ \E k \in 1..Len(issued) : issued[k].verb = PrimaryVerb /\ issued[k].rc # 0) =>
        report # "all"

----------------------------------------------------------------------------
(* images.py: check_image_exists, probe by probe *)

\* what a probe can answer: the file is there, is not there, may not be
\* looked at; for the three probes that run a program also: no such program,
\* the program may not be executed (PermissionError of subprocess.run), no
\* answer within timeout=2
ProbeAnswers == {"found", "absent", "denied", "missing", "notexec", "timeout"}

\* Path.exists and Path.stat run no program
ProbeTables ==
    {t \in [1..5 -> ProbeAnswers] :
        \A k \in 1..2 : t[k] \in {"found", "absent", "denied"}}

\* what becomes of probe k with answer a: return True, go on to the next
\* probe, or an exception that no except clause of the probe names
probe_step(k, a) ==
    IF a = "found" THEN "true"
    ELSE IF k >= 3 /\ a = "notexec" THEN "raise"
    ELSE "next"

\* one probe of the cascade
ProbeRun ==
    /\ cmd = "check_image_exists" /\ pc = "probe" /\ probe_k <= 5
    /\ probes_run' = Append(probes_run, probe_k)
    /\ LET step == probe_step(probe_k, probe_table[probe_k]) IN
       IF step = "true"
       THEN verdict' = "true" /\ pc' = "done" /\ outcome' = "ok" /\ probe_k' = probe_k
       ELSE IF step = "raise"
       THEN verdict' = "raised" /\ pc' = "done" /\ outcome' = "exception"
            /\ probe_k' = probe_k
       ELSE verdict' = verdict /\ pc' = pc /\ outcome' = outcome /\ probe_k' = probe_k + 1
    /\ UNCHANGED <<frameImage, cmd, files, access, probe_table, pair, decision, detected>>

\* return False after the fifth probe
ProbeExhausted ==
    /\ cmd = "check_image_exists" /\ pc = "probe" /\ probe_k = 6
    /\ verdict' = "false" /\ pc' = "done" /\ outcome' = "ok"
    /\ UNCHANGED <<frameImage, cmd, files, access, probe_table, probe_k, probes_run, pair,
                   decision, detected>>

InitProbe ==
    /\ hv = [n \in Names |-> "absent"]
    /\ leases = [n \in Names |-> FALSE] /\ marker = [n \in Names |-> FALSE]
    /\ cmd = "check_image_exists" /\ pc = "probe" /\ outcome = "none"
    /\ last_probe = "none"
    /\ IdleWait /\ IdleSnail /\ IdleStatus /\ IdleReader /\ IdleCreate /\ IdleLife /\ IdleSort /\ IdleCall
    /\ probe_table \in ProbeTables /\ probe_k = 1 /\ probes_run = <<>> /\ verdict = "none"
    /\ pair = <<>> /\ decision = <<>> /\ detected = "none"

NextProbe == ProbeRun \/ ProbeExhausted

SpecProbe == InitProbe /\ [][NextProbe]_vars

\* C18: check_image_exists runs its probes in the order 1 to 5 and never ends
\* in an exception; it returns true exactly at the first probe that finds the
\* file, without running a later one, and false only after all five probes
\* have failed.
C18_CascadeNeverRaises ==
    cmd = "check_image_exists" =>
        /\ probes_run = [i \in 1..Len(probes_run) |-> i]
        /\ verdict # "raised"
        /\ verdict = "true" =>
              /\ probe_table[Len(probes_run)] = "found"
              /\ \A k \in 1..(Len(probes_run) - 1) : probe_table[k] # "found"
        /\ verdict = "false" =>
              /\ Len(probes_run) = 5
              /\ \A k \in 1..5 : probe_table[k] # "found"
        /\ pc = "done" => verdict \in {"true", "false"}

----------------------------------------------------------------------------
(* The image-existence decisions for a RHEL version *)

\* the RHEL versions of the model: "10.0" and "9"
RhelVersions == {<<"1", "0", ".", "0">>, <<"9">>}

\* rhel-<version>-x86_64-kvm.qcow2
actual_image(version, dir) == PathJoin(dir, rhel \o <<"-">> \o version \o x86_64_kvm \o qcow2)
\* rhel-cloud-base-<version with "_" for ".">.qcow2
legacy_image(version, dir) ==
    PathJoin(dir, rhel \o cloud_base \o replace(version, ".", "_") \o qcow2)
\* rhel-cloud-base-<version>.qcow2
alt_image(version, dir) == PathJoin(dir, rhel \o cloud_base \o version \o qcow2)

\* the names under which the image of a RHEL version may lie, in the order
\* of the fallback
RhelCandidates(version, dir) ==
    <<actual_image(version, dir), legacy_image(version, dir), alt_image(version, dir)>>

\* the places where the existence of an image is decided
DecisionPlaces == {"list", "gate", "select"}

\* what a place resolved the version to
Resolved(exists, base_image) == [made |-> TRUE, exists |-> exists, base_image |-> base_image]

\* a place that has not decided yet
Undecided == [made |-> FALSE, exists |-> FALSE, base_image |-> None]

\* one pass of the loop of _show_rhel_versions: exists and base_image
_show_rhel_versions(version, dir, fs, mode) ==
    LET Exists(path) == check_image_exists(ProbeTable(path \in fs, mode)) IN
    IF Exists(actual_image(version, dir)) THEN Resolved(TRUE, actual_image(version, dir))
    ELSE IF Exists(legacy_image(version, dir)) THEN Resolved(TRUE, legacy_image(version, dir))
    ELSE IF Exists(alt_image(version, dir)) THEN Resolved(TRUE, alt_image(version, dir))
    ELSE Resolved(FALSE, None)

\* the row of list-versions for the version
ShowRhel ==
    /\ cmd = "rhel" /\ ~decision["list"].made
    /\ decision' = [decision EXCEPT !["list"] = _show_rhel_versions(pair[2], image_dir, files, access)]
    /\ UNCHANGED <<frameImage, varsCmd, files, access, probe_table, probe_k, probes_run,
                   verdict, pair, detected>>

\* the loop body of create_vms for the spec rhel:<version>
GateRhel ==
    /\ cmd = "rhel" /\ ~decision["gate"].made
    /\ LET base_image == get_base_image_path(pair[1], pair[2], image_dir) IN
       decision' = [decision EXCEPT !["gate"] =
                       Resolved(check_image_exists(ProbeTable(base_image \in files, access)),
                                base_image)]
    /\ UNCHANGED <<frameImage, varsCmd, files, access, probe_table, probe_k, probes_run,
                   verdict, pair, detected>>

\* the test of get_available_distro_versions, which create_all_vms selects by
SelectRhel ==
    /\ cmd = "rhel" /\ ~decision["select"].made
    /\ decision' = [decision EXCEPT !["select"] =
                       Resolved(_check_distro_version_image(pair[1], pair[2], image_dir,
                                                            files, access),
                                get_base_image_path(pair[1], pair[2], image_dir))]
    /\ UNCHANGED <<frameImage, varsCmd, files, access, probe_table, probe_k, probes_run,
                   verdict, pair, detected>>

InitRhel ==
    /\ hv = [n \in Names |-> "absent"]
    /\ leases = [n \in Names |-> FALSE] /\ marker = [n \in Names |-> FALSE]
    /\ cmd = "rhel" /\ pc = "start" /\ outcome = "none"
    /\ last_probe = "none"
    /\ IdleWait /\ IdleSnail /\ IdleStatus /\ IdleReader /\ IdleLife /\ IdleSort /\ IdleCall
    /\ vm_specs = <<>> /\ spec_idx = 0 /\ missing_images = <<>> /\ unknown = <<>>
    /\ script_runs = 0
    /\ probe_table = <<>> /\ probe_k = 0 /\ probes_run = <<>> /\ verdict = "none"
    /\ detected = "none"
    /\ \E version \in RhelVersions :
        /\ pair = <<rhel, version>>
        /\ files \in SUBSET Range(RhelCandidates(version, image_dir))
    /\ access \in AccessModes
    /\ decision = [place \in DecisionPlaces |-> Undecided]

NextRhel == ShowRhel \/ GateRhel \/ SelectRhel

SpecRhel == InitRhel /\ [][NextRhel]_vars

\* the first candidate name that check_image_exists finds, None when none
FirstExisting(version, dir, fs, mode) ==
    LET cand == RhelCandidates(version, dir)
        Hit(i) == check_image_exists(ProbeTable(cand[i] \in fs, mode))
    IN  IF \E i \in 1..3 : Hit(i)
        THEN cand[CHOOSE i \in 1..3 : Hit(i) /\ \A j \in 1..(i - 1) : ~Hit(j)]
        ELSE None

\* C19: every place that decides whether the image of a RHEL version exists
\* resolves to the first of the three names that exists, with exists = true,
\* and to exists = false only when none of the three exists.
C19_RhelFallbackEverywhere ==
    cmd = "rhel" =>
        \A place \in DecisionPlaces :
            decision[place].made =>
                LET first == FirstExisting(pair[2], image_dir, files, access) IN
                /\ decision[place].exists = (first # None)
                /\ first # None => decision[place].base_image = first

----------------------------------------------------------------------------
(* images.py: scan_available_images *)

Distros == {fedora, debian, ubuntu, centos, rhel, suse}

\* the result of an re match that failed
NoMatch == [ok |-> FALSE, groups |-> <<>>, rest |-> <<>>]

\* the start of a match on the text s
Start(s) == [ok |-> TRUE, groups |-> <<>>, rest |-> s]

\* the literal lit next
Lit(mt, lit) ==
    IF mt.ok /\ startswith(mt.rest, lit)
    THEN [mt EXCEPT !.rest = SubSeq(mt.rest, Len(lit) + 1, Len(mt.rest))]
    ELSE NoMatch

\* the length of the run of digits s begins with
DigitRun(s) ==
    CHOOSE n \in 0..Len(s) :
        /\ \A k \in 1..n : IsDigit(s[k])
        /\ n = Len(s) \/ ~IsDigit(s[n + 1])

\* the group (\d+) next
Digits(mt) ==
    IF mt.ok /\ DigitRun(mt.rest) > 0
    THEN [ok |-> TRUE,
          groups |-> Append(mt.groups, SubSeq(mt.rest, 1, DigitRun(mt.rest))),
          rest |-> SubSeq(mt.rest, DigitRun(mt.rest) + 1, Len(mt.rest))]
    ELSE NoMatch

\* the optional part (?:_(\d+))? next: its group is None when it is skipped
OptionalMinor(mt) ==
    IF Digits(Lit(mt, <<"_">>)).ok THEN Digits(Lit(mt, <<"_">>))
    ELSE IF mt.ok THEN [mt EXCEPT !.groups = Append(mt.groups, None)]
    ELSE NoMatch

\* r'<distro>-cloud-base-(\d+)\.qcow2' of fedora, debian and centos
pattern_cloud_base(distro, filename) == Lit(Digits(Lit(Start(filename), distro \o cloud_base)), qcow2)

\* r'ubuntu-cloud-base-(\d+)_(\d+)\.qcow2'
pattern_ubuntu(filename) ==
    Lit(Digits(Lit(Digits(Lit(Start(filename), ubuntu \o cloud_base)), <<"_">>)), qcow2)

\* the three patterns of rhel, in the order of the list
pattern_rhel(k, filename) ==
    IF k = 1
    THEN Lit(Digits(Lit(Digits(Lit(Start(filename), rhel \o <<"-">>)), <<".">>)), x86_64_kvm \o qcow2)
    ELSE IF k = 2
    THEN Lit(Digits(Lit(Start(filename), rhel \o <<"-">>)), x86_64_kvm \o qcow2)
    ELSE Lit(OptionalMinor(Digits(Lit(Start(filename), rhel \o cloud_base))), qcow2)

\* the version the rhel branch makes of a match
rhel_version(mt) ==
    IF Len(mt.groups) = 2 /\ mt.groups[2] # None
    THEN mt.groups[1] \o <<".">> \o mt.groups[2]
    ELSE mt.groups[1]

\* the body of  for img_file in files_to_check: the (distro, version) appended
\* for a file name, None when nothing is appended.  Both ways out of the rhel
\* loop end in  continue, so the suse pattern after it is never tried.
detect(filename) ==
    IF pattern_cloud_base(fedora, filename).ok
    THEN <<fedora, pattern_cloud_base(fedora, filename).groups[1]>>
    ELSE IF pattern_cloud_base(debian, filename).ok
    THEN <<debian, pattern_cloud_base(debian, filename).groups[1]>>
    ELSE IF pattern_ubuntu(filename).ok
    THEN <<ubuntu, pattern_ubuntu(filename).groups[1] \o <<".">> \o pattern_ubuntu(filename).groups[2]>>
    ELSE IF pattern_cloud_base(centos, filename).ok
    THEN <<centos, pattern_cloud_base(centos, filename).groups[1]>>
    ELSE IF \E k \in 1..3 : pattern_rhel(k, filename).ok
    THEN LET first == CHOOSE k \in 1..3 :
                          /\ pattern_rhel(k, filename).ok
                          /\ \A j \in 1..(k - 1) : ~pattern_rhel(j, filename).ok
         IN  <<rhel, rhel_version(pattern_rhel(first, filename))>>
    ELSE None

\* img_file.name of a path in dir
Basename(path, dir) == SubSeq(path, Len(dir) + 2, Len(path))

Reverse(s) == [i \in 1..Len(s) |-> s[Len(s) + 1 - i]]

\* glob and ls list the directory when it is open to everyone, sudo -n ls
\* also when it is open to root only
scan_available_images(dir, fs, mode) ==
    LET files_to_check == IF mode = "closed" THEN {} ELSE fs
        found == {detect(Basename(path, dir)) : path \in files_to_check} \ {None}
    IN  [distro \in Distros |->
            Reverse(sorted({hit[2] : hit \in {h \in found : h[1] = distro}}))]

\* the (distro, version) pairs of the model, one of each form of version
ValidPairs ==
    {<<fedora, <<"4", "2">>>>, <<debian, <<"1", "2">>>>,
     <<ubuntu, <<"2", "4", ".", "0", "4">>>>, <<centos, <<"9">>>>,
     <<rhel, <<"1", "0", ".", "0">>>>, <<rhel, <<"9">>>>,
     <<suse, <<"1", "5", ".", "5">>>>, <<suse, sles \o <<"1", "5", ".", "5">>>>,
     <<suse, tumbleweed>>}

\* the image of the pair is put into image_dir under its generated name
PlaceImage ==
    /\ cmd = "scan" /\ pc = "start"
    /\ files' = files \cup {get_base_image_path(pair[1], pair[2], image_dir)}
    /\ pc' = "placed"
    /\ UNCHANGED <<frameImage, cmd, outcome, access, probe_table, probe_k, probes_run, verdict,
                   pair, decision, detected>>

Scan ==
    /\ cmd = "scan" /\ pc = "placed"
    /\ detected' = scan_available_images(image_dir, files, access)
    /\ pc' = "done" /\ outcome' = "ok"
    /\ UNCHANGED <<frameImage, cmd, files, access, probe_table, probe_k, probes_run, verdict,
                   pair, decision>>

InitScan ==
    /\ hv = [n \in Names |-> "absent"]
    /\ leases = [n \in Names |-> FALSE] /\ marker = [n \in Names |-> FALSE]
    /\ cmd = "scan" /\ pc = "start" /\ outcome = "none"
    /\ last_probe = "none"
    /\ IdleWait /\ IdleSnail /\ IdleStatus /\ IdleReader /\ IdleLife /\ IdleSort /\ IdleCall
    /\ vm_specs = <<>> /\ spec_idx = 0 /\ missing_images = <<>> /\ unknown = <<>>
    /\ script_runs = 0
    /\ probe_table = <<>> /\ probe_k = 0 /\ probes_run = <<>> /\ verdict = "none"
    /\ decision = <<>>
    /\ pair \in ValidPairs
    /\ \E others \in SUBSET ValidPairs :
        /\ Cardinality(others) <= 1
        /\ files = {get_base_image_path(o[1], o[2], image_dir) : o \in others}
    /\ access \in AccessModes
    /\ detected = [distro \in Distros |-> <<>>]

NextScan == PlaceImage \/ Scan

SpecScan == InitScan /\ [][NextScan]_vars

\* C20: when the image of a (distro, version) pair lies in a readable
\* image_dir under the name get_base_image_path gives it, the scan detects
\* that file as exactly this pair: the version is listed under the
\* distribution.
C20_GeneratedNameIsDetected ==
    (cmd = "scan" /\ pc = "done" /\ access # "closed") =>
        /\ detect(Basename(get_base_image_path(pair[1], pair[2], image_dir), image_dir)) = pair
        /\ pair[2] \in Range(detected[pair[1]])

\* C21: after a scan the list of every distribution holds each detected
\* version once and in the catalog's ordering of that distribution, the
\* version with the larger sort key first (rhel 10.0 before rhel 9).
C21_DetectedInCatalogOrder ==
    (cmd = "scan" /\ pc = "done") =>
        \A distro \in Distros :
            \A i, j \in 1..Len(detected[distro]) :
                i < j => /\ detected[distro][i] # detected[distro][j]
                         /\ version_sort_key(distro, detected[distro][i])
                                >= version_sort_key(distro, detected[distro][j])

----------------------------------------------------------------------------
(* vms.py and commands.py: the version sorts of the catalog *)

\* the largest number of versions of one distribution
MaxVersions == 5

\* RHEL versions, from the examples of the comment in _show_rhel_versions
RhelCatalog == {<<"1", "0">>, <<"1", "0", ".", "0">>, <<"9", ".", "4">>, <<"9">>, <<"8", ".", "1", "0">>, <<"8">>}

\* SUSE versions: openSUSE Leap, SLES and Tumbleweed
SuseCatalog == {<<"1", "5", ".", "5">>, <<"1", "5", ".", "4">>, sles \o <<"1", "5", ".", "5">>, tumbleweed}

\* the key orders of a dict with n <= MaxVersions of the versions of S
Orders(S) ==
    UNION {{s \in [1..n -> S] : \A i, j \in 1..n : i # j => s[i] # s[j]} : n \in 1..MaxVersions}

\* versions.items(): the display name of a version plays no part in the sort
items(versions) == [k \in 1..Len(versions) |-> <<versions[k], versions[k]>>]

rhel_sort_key(item) ==
    LET version == item[1] IN
    IF HasChar(".", version)
    THEN (IF Len(split(version, ".")) = 2 /\ IsDigits(split(version, ".")[1])
             /\ IsDigits(split(version, ".")[2])
          THEN ParseInt(split(version, ".")[1]) * 1000 + ParseInt(split(version, ".")[2])
          ELSE 0)
    ELSE IF IsDigits(version) THEN ParseInt(version) * 1000
    ELSE 0

suse_sort_key(item) ==
    LET version == item[1] IN
    IF startswith(version, sles)
    THEN (IF IsDigits(WithoutDots(SubSeq(version, 5, Len(version))))
          THEN 20000 + ParseInt(WithoutDots(SubSeq(version, 5, Len(version))))
          ELSE 0)
    ELSE IF version = tumbleweed THEN 30000
    ELSE IF HasChar(".", version)
    THEN (IF Len(split(version, ".")) = 2 /\ IsDigits(split(version, ".")[1])
             /\ IsDigits(split(version, ".")[2])
          THEN ParseInt(split(version, ".")[1]) * 100 + ParseInt(split(version, ".")[2])
          ELSE 0)
    ELSE 0

\* sorted(versions.items(), key=..., reverse=True)  with the key function of
\* the distribution
sorted_items_reverse(distro, its) ==
    LET key(item) == IF distro = rhel THEN rhel_sort_key(item) ELSE suse_sort_key(item)
        ordered == sort_pairs_reverse([k \in 1..Len(its) |-> <<key(its[k]), its[k]>>])
    IN  [k \in 1..Len(ordered) |-> ordered[k][2]]

frameSort == <<varsEnv, varsWait, varsProbe, varsSnail, varsStatus, varsReader, varsCreate,
               varsLife, varsImage, varsCall>>

\* get_available_distro_versions: versions_list.sort(key=..., reverse=True)
SortVersions ==
    /\ cmd = "sort" /\ pc = "start"
    /\ sorted_versions' = sort_reverse(catalog_distro, available_versions)
    /\ pc' = "sorted"
    /\ UNCHANGED <<frameSort, cmd, outcome, catalog_distro, available_versions, table_rows>>

\* _show_rhel_versions, _show_suse_versions: one row per version, in sorted order
ShowVersions ==
    /\ cmd = "sort" /\ pc = "sorted"
    /\ LET shown == sorted_items_reverse(catalog_distro, items(available_versions))
       IN  table_rows' = [k \in 1..Len(shown) |-> shown[k][1]]
    /\ pc' = "done" /\ outcome' = "ok"
    /\ UNCHANGED <<frameSort, cmd, catalog_distro, available_versions, sorted_versions>>

InitSort ==
    /\ hv = [n \in Names |-> "absent"]
    /\ leases = [n \in Names |-> FALSE] /\ marker = [n \in Names |-> FALSE]
    /\ cmd = "sort" /\ pc = "start" /\ outcome = "none"
    /\ last_probe = "none"
    /\ IdleWait /\ IdleSnail /\ IdleStatus /\ IdleReader /\ IdleCreate /\ IdleLife
    /\ IdleImage /\ IdleCall
    /\ catalog_distro \in {rhel, suse}
    /\ available_versions \in Orders(IF catalog_distro = rhel THEN RhelCatalog ELSE SuseCatalog)
    /\ sorted_versions = <<>> /\ table_rows = <<>>

NextSort == SortVersions \/ ShowVersions

SpecSort == InitSort /\ [][NextSort]_vars

\* the list of the RHEL example, in the order it is to be shown
RhelExample == <<<<"1", "0">>, <<"9", ".", "4">>, <<"9">>, <<"8", ".", "1", "0">>, <<"8">>>>

\* C22: the sorted RHEL versions, in the catalog's own sort and in the rows
\* of list-versions, have descending keys major*1000+minor; a major-only
\* version stands after every minor release of its major; and the versions
\* 10, 9.4, 9, 8.10, 8 come out in exactly this order from every input order.
C22_RhelMajorOnlyAfterMinors ==
    (cmd = "sort" /\ pc = "done" /\ catalog_distro = rhel) =>
        \A l \in {sorted_versions, table_rows} :
            /\ \A i, j \in 1..Len(l) : i < j => rhel_sort(l[i]) >= rhel_sort(l[j])
            /\ \A i, j \in 1..Len(l) :
                (IsDigits(l[j]) /\ MajorMinor(l[i]) /\ split(l[i], ".")[1] = l[j]) => i < j
            /\ Range(available_versions) = Range(RhelExample) => l = RhelExample

\* 1 for a plain numeric version, 2 for sles*, 3 for tumbleweed
SuseClass(v) == IF v = tumbleweed THEN 3 ELSE IF startswith(v, sles) THEN 2 ELSE 1

\* C23: the sorted SUSE versions, in the catalog's own sort and in the rows
\* of list-versions, have the plain numeric versions first, every sles*
\* version after all of them, and tumbleweed last.
C23_SuseNumericThenSlesThenTumbleweed ==
    (cmd = "sort" /\ pc = "done" /\ catalog_distro = suse) =>
        \A l \in {sorted_versions, table_rows} :
            \A i, j \in 1..Len(l) : i < j => SuseClass(l[i]) <= SuseClass(l[j])

----------------------------------------------------------------------------
(* utils.py: run_command, and the external processes of the commands *)

\* how long a child process that never returns is watched
MaxWait == 6

\* one call of subprocess.run: whether it was given timeout=, the timeout,
\* and whether the caller catches TimeoutExpired
CallSite(name, bounded, seconds, caught) ==
    [name |-> name, bounded |-> bounded, timeout |-> seconds, caught |-> caught]

\* run_command(cmd, sudo=True, check=False): no timeout reaches subprocess.run
Unbounded(name) == CallSite(name, FALSE, 0, FALSE)

\* the external calls of a command, in the order it makes them
Programs ==
    [get_vm_list |-> <<Unbounded("virsh list --all")>>,
     _shutdown_single_vm |-> <<Unbounded("virsh shutdown"), Unbounded("virsh domstate"),
                               Unbounded("virsh destroy")>>,
     _destroy_single_vm |-> <<Unbounded("virsh domstate"), Unbounded("virsh destroy"),
                              Unbounded("virsh undefine"), Unbounded("rm -f")>>,
     check_cloud_init_complete |-> <<CallSite("ssh", TRUE, CloudInitProbeTimeout, FALSE)>>,
     check_image_exists |-> <<CallSite("ls", TRUE, 2, TRUE), CallSite("test -f", TRUE, 2, TRUE),
                              CallSite("sudo -n test -f", TRUE, 2, TRUE)>>]

frameCall == <<varsEnv, varsWait, varsProbe, varsSnail, varsStatus, varsReader, varsCreate,
               varsLife, varsImage, varsSort>>

\* subprocess.run starts the child; whether the child ever exits is up to it
ChildStart ==
    /\ cmd = "call" /\ pc = "run" /\ child = "none" /\ site <= Len(program)
    /\ child' \in {"running", "stuck"}
    /\ elapsed' = 0
    /\ UNCHANGED <<frameCall, varsCmd, program, site>>

\* the child exits and run_command returns its result
ChildExit ==
    /\ cmd = "call" /\ pc = "run" /\ child = "running"
    /\ child' = "none" /\ site' = site + 1 /\ elapsed' = 0
    /\ UNCHANGED <<frameCall, varsCmd, program>>

\* a second passes while subprocess.run waits for the child
ChildWait ==
    /\ cmd = "call" /\ pc = "run" /\ child # "none"
    /\ elapsed < (IF program[site].bounded THEN program[site].timeout ELSE MaxWait)
    /\ elapsed' = elapsed + 1
    /\ UNCHANGED <<frameCall, varsCmd, program, site, child>>

\* subprocess.run kills the child at its timeout and raises TimeoutExpired
TimeoutExpired ==
    /\ cmd = "call" /\ pc = "run" /\ child # "none"
    /\ program[site].bounded /\ elapsed = program[site].timeout
    /\ child' = "none" /\ elapsed' = 0
    /\ IF program[site].caught
       THEN site' = site + 1 /\ UNCHANGED <<pc, outcome>>
       ELSE site' = site /\ pc' = "done" /\ outcome' = "exception"
    /\ UNCHANGED <<frameCall, cmd, program>>

\* the command returns after its last call
CallsDone ==
    /\ cmd = "call" /\ pc = "run" /\ child = "none" /\ site > Len(program)
    /\ pc' = "done" /\ outcome' = "ok"
    /\ UNCHANGED <<frameCall, cmd, program, site, child, elapsed>>

InitCall ==
    /\ hv = [n \in Names |-> "absent"]
    /\ leases = [n \in Names |-> FALSE] /\ marker = [n \in Names |-> FALSE]
    /\ cmd = "call" /\ pc = "run" /\ outcome = "none"
    /\ last_probe = "none"
    /\ IdleWait /\ IdleSnail /\ IdleStatus /\ IdleReader /\ IdleCreate /\ IdleLife
    /\ IdleImage /\ IdleSort
    /\ program \in {Programs[f] : f \in DOMAIN Programs}
    /\ site = 1 /\ child = "none" /\ elapsed = 0

NextCall == ChildStart \/ ChildExit \/ ChildWait \/ TimeoutExpired \/ CallsDone

SpecCall == InitCall /\ [][NextCall]_vars

\* the interpreter and every child that is going to exit keep running
SpecCallFair == SpecCall /\ WF_vars(NextCall)

\* C24: every command terminates, also when an external process it started
\* never returns: each blocking call carries a timeout that ends it.
C24_EveryCommandTerminates == <>(pc = "done")

----------------------------------------------------------------------------
(* Further claims about the readiness pollers *)

\* C25: in both readiness loops every SSH attempt is made in an iteration
\* whose check of port 22 came first and succeeded.
C25_PortCheckBeforeSshAttempt ==
    [][ (WaitSshProbe \/ SnailProbe) => (port_checks > 0 /\ port_open) ]_vars

\* C26: a poll that ends without success ends as timed out and not before
\* its deadline, a VM without an address at the start included; and the
\* sweep polls every running VM, so each ends up ready or not ready.
C26_NoAddressIsPolledUntilDeadline ==
    /\ (cmd = "wait_for_ssh" /\ pc = "done" /\ outcome = "ok" /\ report # "success")
          => (report = "timeout" /\ now >= timeout)
    /\ (cmd = "run_snail_on_vms" /\ pc = "done" /\ outcome = "ok")
          => \A n \in Range(running_vms) : n \in Range(ssh_ready) \/ n \in Range(not_ready)

----------------------------------------------------------------------------
(* Further claims about start, shutdown and destroy *)

\* the positions in NewlyIssued of the commands with this verb
IssuedNow(verb) == {k \in 1..Len(NewlyIssued) : NewlyIssued[k].verb = verb}

\* C27: _ensure_cloudinit_iso_or_detach, as run by every start of a VM,
\* changes nothing when the medium exists; regenerates only when the medium is
\* missing and user-data and meta-data both exist, and then before anything
\* else; detaches only when the medium is missing and the files are not both
\* there or the regeneration failed; and never detaches after a regeneration
\* that worked.
C27_RegenerateFirstDetachOnlyAfterFailure ==
    [][ StartOne =>
        LET vm == targets[t_idx + 1]
            m == media[vm]
            both == m.user_data /\ m.meta_data
            gens == IssuedNow("genisoimage")
            dets == IssuedNow("detach-disk")
        IN  /\ m.iso => (gens = {} /\ dets = {} /\ media' = media)
            /\ gens # {} => (~m.iso /\ both /\ gens = {1})
            /\ (~m.iso /\ both /\ outcome' # "exception") => gens # {}
            /\ dets # {} => /\ ~m.iso
                            /\ ~both \/ \E g \in gens : NewlyIssued[g].rc # 0
                            /\ \A g \in gens, d \in dets : g < d
            /\ (\E g \in gens : NewlyIssued[g].rc = 0)
                  => (dets = {} /\ media'[vm].attached = m.attached /\ media'[vm].iso)
      ]_vars

\* a start whose regeneration failed detached the medium, and another start
\* regenerated a medium and left it attached
C27_Witness ==
    /\ cmd = "start_vms"
    /\ \E k \in 1..(Len(issued) - 1) :
        /\ issued[k].verb = "genisoimage" /\ issued[k].rc # 0
        /\ issued[k + 1] = Ran("detach-disk", issued[k].vm, TRUE)
        /\ ~media[issued[k].vm].attached

\* C28: the single-VM form of start, shutdown and destroy goes on only when
\* a VM named exactly NAME is defined; otherwise, and when the inventory
\* query failed, it reports 'VM not found' and runs no command.
C28_SingleVmNeedsExactName ==
    [][ (LifeBegin /\ vm_name # None /\ vm_name \notin Defined(hv))
            => (report' = "not found" /\ pc' = "done" /\ issued' = issued) ]_vars

\* C29: start, shutdown and destroy, in their batch and single-VM forms, run
\* commands only for VMs whose name starts with the prefix, and leave the
\* state and the disk of every other VM as they are.
C29_OnlyPrefixedVmsAreTouched ==
    [][ /\ \A k \in 1..Len(NewlyIssued) :
              NewlyIssued[k].vm # None => startswith(NewlyIssued[k].vm, prefix)
        /\ \A n \in Names :
              ~startswith(n, prefix) => (hv'[n] = hv[n] /\ (n \in disks' <=> n \in disks))
      ]_vars

\* C30: in the batch form of start, whatever the two listing queries answer,
\* no VM that is running is handed to _start_single_vm.
C30_StartAllSkipsRunningVms ==
    [][ (StartOne /\ vm_name = None) => hv[targets[t_idx + 1]] # "running" ]_vars

====
